---- MODULE Spec2Model ----
(***************************************************************************)
(* A model of the judgment search-and-chat page (PageBody and ChatPanel):  *)
(* the debounced, cancellable search with its pagination payload, the lazy *)
(* document preview, and the streaming chat with its sync fallback.        *)
(*                                                                         *)
(* Text is a sequence of one-character strings.  Three specifications      *)
(* share the variables: SpecStream (the read loop of askStreaming over one *)
(* response body cut into arbitrary chunks), SpecChat (ChatPanel) and      *)
(* SpecSearch (PageBody); SpecNorm applies normalizeSearchPayload to       *)
(* payloads.  A specification leaves the variables of the others idle.     *)
(***************************************************************************)
EXTENDS Integers, Sequences, FiniteSets, Bags, TLC

VARIABLES
  \* ---- askStreaming's read loop over one body (SpecStream) ----
  body,               \* the response body of /chat/stream, as text
  pos,                \* how many characters of body the reader has delivered
  buffer,             \* let buffer
  accumulatedAnswer,  \* let accumulatedAnswer
  isDone,             \* let isDone
  parsedLines,        \* history: the lines handed to JSON.parse, in order
  readerState         \* "reading" | "finished"

streamVars == <<body, pos, buffer, accumulatedAnswer, isDone, parsedLines, readerState>>

VARIABLES
  \* ---- ChatPanel (SpecChat) ----
  selectedDoc,        \* PageBody's selectedDoc: 0 (null) or the document id
  question,           \* the textarea
  lastQuestion,       \* Null or the last submitted question
  k,                  \* the k slider
  isLoading,
  isStreaming,
  answer,             \* Null or text
  chunks,             \* the sources of the answer on display
  streamingAnswer,
  qaLog,              \* sequence of [q, a, chunks], and as history the doc_id
                      \* the question was sent with
  askAbortRef,        \* 0 (null) or the id of the controller it holds
  chatReqs,           \* the chat requests whose async function has not returned
  alerts,             \* how many 'Chat error' alerts were raised
  chatSeq,            \* history: how many requests were put on the network
  chatOp              \* history: the step taken last, the request it was for, and
                      \* the text it had in hand (the accumulated answer, the reply)

chatVars == <<selectedDoc, question, lastQuestion, k, isLoading, isStreaming, answer,
              chunks, streamingAnswer, qaLog, askAbortRef, chatReqs, alerts, chatSeq,
              chatOp>>

VARIABLES
  \* ---- PageBody (SpecSearch) ----
  mounted,            \* have the mount effects run
  url,                \* the search params: [q, limit, offset, doc]
  query,              \* the search box
  isSearching,
  results,            \* the hits on display, each by its doc_id
  limit,
  offset,
  nextOffset,         \* null or a number
  prevOffset,
  totalCount,
  page,
  totalPages,
  pageInput,          \* the page box; the number its text spells
  expandedMeta,       \* per document: "undefined", "null" or "meta"
  expandedSet,
  errorMsg,           \* Null or the message
  searchAbortRef,     \* 0 (null) or the id of the controller it holds
  metaAbortRef,       \* per document: 0 (no entry) or the id of its controller
  timers,             \* the bag of pending debounce timers, each [q, lim]
  debounceHandle,     \* what the debounce effect's cleanup will clear
  searchReqs,         \* the /search requests whose doSearch has not returned
  previewReqs,        \* the preview requests whose toggleExpand has not returned
  searchSeq,          \* history: how many /search requests were sent
  previewSeq,         \* history: how many preview requests were sent
  searchOp            \* history: the step taken last and what it was for

searchVars == <<mounted, url, query, isSearching, results, limit, offset, nextOffset,
                prevOffset, totalCount, page, totalPages, pageInput, expandedMeta,
                expandedSet, errorMsg, searchAbortRef, metaAbortRef, timers,
                debounceHandle, searchReqs, previewReqs, searchSeq, previewSeq,
                searchOp>>

VARIABLES
  \* ---- normalizeSearchPayload on its own (SpecNorm) ----
  data,               \* the parsed JSON handed to normalizeSearchPayload
  norm,               \* what it returned
  normCalled          \* has it been called

normVars == <<data, norm, normCalled>>

VARIABLES
  \* ---- ChatPanels that were unmounted ----
  orphanReqs          \* the chat requests of unmounted ChatPanels, still in flight

VARIABLES
  \* ---- the PDF drawer (SpecPdf) ----
  userAgent,          \* which of the patterns the detectors test the user agent has
  pdfPanel,           \* 0 (null) or the document whose PDF the drawer shows
  pdfView             \* what the drawer body renders: "none", "embed", "iframe", "fallback"

pdfVars == <<userAgent, pdfPanel, pdfView>>

VARIABLES
  \* ---- the theme of the document (SpecTheme) ----
  themeCookie,        \* Null or the value of the theme cookie, as stored
  themeStorage,       \* Null or localStorage's 'theme'
  storageWritable,    \* does localStorage.setItem succeed
  pageStage,          \* "closed", "scripted" (initTheme has run), "mounted"
  dataTheme,          \* Null or the data-theme of the document element
  switchTheme,        \* ThemeSwitch's theme state
  lastSelected        \* history: Null or the theme selected last in ThemeSwitch

themeVars == <<themeCookie, themeStorage, storageWritable, pageStage, dataTheme,
               switchTheme, lastSelected>>

otherVars == <<normVars, orphanReqs, pdfVars, themeVars>>

vars == <<streamVars, chatVars, searchVars, otherVars>>

\* What a step of one specification leaves alone.
OutsideStream == UNCHANGED <<chatVars, searchVars, otherVars>>
OutsideChat == UNCHANGED <<streamVars, searchVars, otherVars>>
OutsideSearch == UNCHANGED <<streamVars, chatVars, otherVars>>
OutsideNorm == UNCHANGED <<streamVars, chatVars, searchVars, orphanReqs, pdfVars, themeVars>>
OutsidePdf == UNCHANGED <<streamVars, chatVars, searchVars, normVars, orphanReqs, themeVars>>
OutsideTheme == UNCHANGED <<streamVars, chatVars, searchVars, normVars, orphanReqs, pdfVars>>

(***************************************************************************)
(* Text helpers                                                            *)
(***************************************************************************)
LF == "\n"

\* Whitespace as \s and trim() see it, over the model's alphabet: the blank,
\* the line feed of a body, and "n", the line feed inside a decoded answer.
IsSpace(c) == c \in {" ", LF, "n"}

RECURSIVE TrimStart(_)
TrimStart(s) ==
  IF s = <<>> THEN <<>>
  ELSE IF IsSpace(Head(s)) THEN TrimStart(Tail(s)) ELSE s

RECURSIVE TrimEnd(_)
TrimEnd(s) ==
  IF s = <<>> THEN <<>>
  ELSE IF IsSpace(s[Len(s)]) THEN TrimEnd(SubSeq(s, 1, Len(s) - 1)) ELSE s

\* String.prototype.trim
Trim(s) == TrimEnd(TrimStart(s))

\* String.prototype.split(sep): the pieces between the separators; a text
\* without a separator is one piece, a trailing separator leaves a last "".
RECURSIVE SplitFrom(_, _, _)
SplitFrom(s, sep, cur) ==
  IF s = <<>> THEN <<cur>>
  ELSE IF Head(s) = sep THEN <<cur>> \o SplitFrom(Tail(s), sep, <<>>)
  ELSE SplitFrom(Tail(s), sep, Append(cur, Head(s)))

Split(s, sep) == SplitFrom(s, sep, <<>>)

\* s.replace(/\s+/g, " "): every run of white space becomes one blank.
RECURSIVE CollapseSpace(_)
CollapseSpace(s) ==
  IF s = <<>> THEN <<>>
  ELSE IF Len(s) = 1 THEN <<IF IsSpace(s[1]) THEN " " ELSE s[1]>>
  ELSE LET half == Len(s) \div 2
           l == CollapseSpace(SubSeq(s, 1, half))
           r == CollapseSpace(SubSeq(s, half + 1, Len(s)))
       IN IF l[Len(l)] = " " /\ r[1] = " " THEN l \o Tail(r) ELSE l \o r

\* String.prototype.slice(0, max)
Slice(s, max) == SubSeq(s, 1, IF Len(s) < max THEN Len(s) ELSE max)

MAX_SEARCH_LEN == 160
MAX_CHAT_LEN == 800

\* A faulty variant: no cap on the length
sanitizeNoCap(s, max) == Trim(CollapseSpace(s))

sanitizeText(s, max) == Trim(Slice(CollapseSpace(s), max))

\* null, where the program holds null or a text
Null == <<"null">>

(***************************************************************************)
(* The chat stream: line-delimited JSON.  A line of the model is "{" field  *)
(* characters "}": "D" stands for "done":true, "E" for a truthy "error",    *)
(* every other character is one character of the "delta" string ("A" is the *)
(* label word that cleanLLMAnswer strips).  Anything else is not JSON.      *)
(***************************************************************************)
NoJson == [ok |-> FALSE, delta |-> <<>>, done |-> FALSE, error |-> FALSE]

IsDeltaChar(c) == c \notin {"D", "E"}

\* JSON.parse(line) and the fields the loop reads from its result.
ParseLine(line) ==
  LET t == Trim(line)
      inner == SubSeq(t, 2, Len(t) - 1)
  IN IF /\ Len(t) >= 2
        /\ t[1] = "{"
        /\ t[Len(t)] = "}"
        /\ \A i \in 1..Len(inner) : inner[i] \notin {"{", "}"}
     THEN [ok |-> TRUE,
           delta |-> SelectSeq(inner, IsDeltaChar),
           done |-> \E i \in 1..Len(inner) : inner[i] = "D",
           error |-> \E i \in 1..Len(inner) : inner[i] = "E"]
     ELSE NoJson

\* What `if (json.error) throw new Error(json.error)` leads to: the throw is
\* inside the per-line try, whose catch logs the line and goes on to the next.
ErrorEventOutcome == "skipLine"

\* for (const line of lines) { ... }: the accumulated text, whether a done line
\* ended the loop, whether the stream was failed, and the lines that were parsed.
RECURSIVE ProcessLines(_, _, _)
ProcessLines(lines, acc, parsed) ==
  IF lines = <<>> THEN [acc |-> acc, isDone |-> FALSE, failed |-> FALSE, parsed |-> parsed]
  ELSE
    LET line == Head(lines)
        json == ParseLine(line)
        p2 == Append(parsed, line)
    IN IF Trim(line) = <<>> THEN ProcessLines(Tail(lines), acc, parsed)
       ELSE IF ~json.ok THEN ProcessLines(Tail(lines), acc, p2)
       ELSE IF json.error
         THEN IF ErrorEventOutcome = "skipLine"
              THEN ProcessLines(Tail(lines), acc, p2)
              ELSE [acc |-> acc, isDone |-> FALSE, failed |-> TRUE, parsed |-> p2]
       ELSE LET acc2 == IF json.delta # <<>> THEN acc \o json.delta ELSE acc
            IN IF json.done
               THEN [acc |-> acc2, isDone |-> TRUE, failed |-> FALSE, parsed |-> p2]
               ELSE ProcessLines(Tail(lines), acc2, p2)

\* One turn of the while loop after reader.read() gave `chunk`:
\* buffer += chunk; lines = buffer.split("\n"); buffer = lines.pop() || "".
ReadStep(buf, acc, parsed, chunk) ==
  LET lines == Split(buf \o chunk, LF)
      r == ProcessLines(SubSeq(lines, 1, Len(lines) - 1), acc, parsed)
  IN [buffer |-> lines[Len(lines)], acc |-> r.acc, isDone |-> r.isDone,
      failed |-> r.failed, parsed |-> r.parsed]

\* cleanLLMAnswer: drop a leading label line (the label, then white space up to
\* its last line feed, when there is one), then trim.
RECURSIVE SpaceRun(_)
SpaceRun(s) == IF s # <<>> /\ IsSpace(Head(s)) THEN 1 + SpaceRun(Tail(s)) ELSE 0

LastFeed(s, n) ==
  LET feeds == {i \in 1..n : s[i] = "n"}
  IN IF feeds = {} THEN 0 ELSE CHOOSE i \in feeds : \A j \in feeds : j <= i

cleanLLMAnswer(raw) ==
  LET t == TrimStart(raw)
  IN IF t # <<>> /\ Head(t) = "A"
     THEN LET rest == Tail(t)
              cut == LastFeed(rest, SpaceRun(rest))
          IN IF cut > 0 THEN Trim(SubSeq(rest, cut + 1, Len(rest))) ELSE Trim(raw)
     ELSE Trim(raw)

(***************************************************************************)
(* SpecStream: one response body, delivered in chunks of any size.          *)
(***************************************************************************)
MaxLines == 2

StreamLines ==
  { <<"{", "a", "}">>, <<"{", "b", "}">>, <<"{", "D", "}">>, <<"{", "a", "D", "}">>,
    <<"{", "E", "}">>, <<"{", "a", "E", "}">>, <<"{", "E", "D", "}">>,
    <<"{", "a">>, <<" ">>, <<>> }

StreamTails == { <<>>, <<"{", "b", "}">>, <<"{", "D", "}">> }

RECURSIVE JoinLines(_)
JoinLines(ls) == IF ls = <<>> THEN <<>> ELSE Head(ls) \o <<LF>> \o JoinLines(Tail(ls))

Bodies ==
  { JoinLines(ls) \o t :
      ls \in UNION { [1..n -> StreamLines] : n \in 0..MaxLines }, t \in StreamTails }

InitStream ==
  /\ body \in Bodies
  /\ pos = 0
  /\ buffer = <<>>
  /\ accumulatedAnswer = <<>>
  /\ isDone = FALSE
  /\ parsedLines = <<>>
  /\ readerState = "reading"

\* reader.read() resolves with the next n characters of the body.
ReadChunk ==
  /\ OutsideStream
  /\ readerState = "reading"
  /\ pos < Len(body)
  /\ \E n \in 1..(Len(body) - pos) :
       LET r == ReadStep(buffer, accumulatedAnswer, parsedLines, SubSeq(body, pos + 1, pos + n))
       IN /\ pos' = pos + n
          /\ buffer' = r.buffer
          /\ accumulatedAnswer' = r.acc
          /\ isDone' = r.isDone
          /\ parsedLines' = r.parsed
          /\ readerState' = IF r.isDone THEN "finished" ELSE "reading"
  /\ UNCHANGED body

\* reader.read() resolves with done: true: the body has ended.
ReadEnd ==
  /\ OutsideStream
  /\ readerState = "reading"
  /\ pos = Len(body)
  /\ readerState' = "finished"
  /\ UNCHANGED <<body, pos, buffer, accumulatedAnswer, isDone, parsedLines>>

NextStream == ReadChunk \/ ReadEnd

(***************************************************************************)
(* ChatPanel                                                               *)
(***************************************************************************)
MaxAsks == 3       \* requests (stream and sync) put on the network
MaxChunks == 2     \* chunks the reader delivers for one request

Questions == { <<" ">>, <<" ", "q", " ", " ", "r">> }
KValues == {6, 7}
ChatChunks ==
  { <<"{", "a", " ", "}", LF>>, <<"{", "D", "}", LF>>, <<"{", "E", "}", LF>>,
    <<"{", "E", "D", "}", LF>> }
\* what /chat answers: its "answer" (Null: none) and its "chunks"
SyncReplies ==
  { [answer |-> Null, chunks |-> <<>>],
    [answer |-> <<"A", "n", "s", " ">>, chunks |-> <<"c">>] }
NoAnswerText == <<"(no answer)">>

\* const displayAnswer = isStreaming ? streamingAnswer : answer
displayAnswer == IF isStreaming THEN streamingAnswer ELSE answer

\* No continuation of an aborted request is waiting: a rejected promise's
\* continuation is a microtask, run before the next event or response.
ChatQuiescent == \A r \in chatReqs : ~r.aborted

\* askAbortRef.current?.abort(): the request holding that controller is aborted.
AbortAsk(reqs, ref) ==
  { IF r.id = ref THEN [r EXCEPT !.aborted = TRUE] ELSE r : r \in reqs }

\* if (askAbortRef.current === ac) askAbortRef.current = null
RefAfter(ref, id) == IF ref = id THEN 0 ELSE ref

\* A faulty variant: a catch that does not tell an AbortError from a failure
StreamCatchNoAbortTest(err) == "askSync"

\* askStreaming's catch: an AbortError ends the call quietly, anything else
\* goes to askSync(q).
StreamCatch(err) == IF err = "AbortError" THEN "silent" ELSE "askSync"

\* askSync's catch: an AbortError is quiet, anything else raises the alert.
SyncCatch(err) == IF err = "AbortError" THEN "silent" ELSE "alert"

\* A faulty variant: the fallback posting the slider's k of the moment
SyncBodyCurrentK(r, kNow) == [q |-> sanitizeText(r.q, MAX_CHAT_LEN), doc |-> r.doc, k |-> kNow]

\* The body askSync(q) posts when called from askStreaming's catch: q again
\* through sanitizeText, selectedDoc.id and k of the render that asked.
SyncBody(r, kNow) == [q |-> sanitizeText(r.q, MAX_CHAT_LEN), doc |-> r.doc, k |-> r.k]

NewId == chatSeq + 1

ChatOp(name, id) == [name |-> name, id |-> id, q |-> <<>>, text |-> <<>>, chunks |-> <<>>]
ChatOpWith(name, r, text, ch) ==
  [name |-> name, id |-> r.id, q |-> r.q, text |-> text, chunks |-> ch]

\* History kept with a streaming request: whether a complete line that has
\* arrived carries a truthy error field, and whether one carries done === true.
CompleteLines(buf, chunk) ==
  LET lines == Split(buf \o chunk, LF) IN SubSeq(lines, 1, Len(lines) - 1)

HasLine(lines, field) ==
  \E i \in 1..Len(lines) :
    LET json == ParseLine(lines[i])
    IN json.ok /\ (IF field = "error" THEN json.error ELSE json.done)

\* Enter or the Ask button: ask() -> askStreaming(), up to its await fetch.
AskStreaming ==
  LET q == sanitizeText(question, MAX_CHAT_LEN)
      r == [id |-> NewId, kind |-> "stream", q |-> q, doc |-> selectedDoc, k |-> k,
            stage |-> "fetch", buffer |-> <<>>, acc |-> <<>>, errorSeen |-> FALSE,
            doneSeen |-> FALSE, n |-> 0, aborted |-> FALSE, origin |-> 0]
  IN /\ OutsideChat
     /\ selectedDoc # 0
     /\ ChatQuiescent
     /\ NewId <= MaxAsks
     /\ q # <<>>
     /\ chatReqs' = AbortAsk(chatReqs, askAbortRef) \cup {r}
     /\ askAbortRef' = r.id
     /\ lastQuestion' = q
     /\ question' = <<>>
     /\ isStreaming' = TRUE
     /\ streamingAnswer' = <<>>
     /\ answer' = Null
     /\ chunks' = <<>>
     /\ chatSeq' = r.id
     /\ chatOp' = ChatOp("ask", r.id)
     /\ UNCHANGED <<selectedDoc, k, isLoading, qaLog, alerts>>

\* askSync(q), called from askStreaming's catch for request r, up to its await
\* fetch.  q is given, so lastQuestion and question are left alone.
StartSync(r) ==
  LET b == SyncBody(r, k)
      s == [id |-> NewId, kind |-> "sync", q |-> b.q, doc |-> b.doc, k |-> b.k,
            stage |-> "fetch", buffer |-> <<>>, acc |-> <<>>, errorSeen |-> FALSE,
            doneSeen |-> FALSE, n |-> 0, aborted |-> FALSE, origin |-> r.id]
  IN /\ chatReqs' = (AbortAsk(chatReqs, askAbortRef) \ {r, [r EXCEPT !.aborted = TRUE]}) \cup {s}
     /\ askAbortRef' = s.id
     /\ isLoading' = TRUE
     /\ answer' = Null
     /\ chunks' = <<>>
     /\ chatSeq' = s.id
     /\ UNCHANGED <<selectedDoc, question, lastQuestion, k, isStreaming, streamingAnswer,
                    qaLog, alerts>>

\* An error thrown inside askStreaming's try for request r: catch, then finally.
StreamThrow(r, err) ==
  IF StreamCatch(err) = "askSync"
  THEN StartSync(r)
  ELSE /\ chatReqs' = chatReqs \ {r}
       /\ askAbortRef' = RefAfter(askAbortRef, r.id)
       /\ isStreaming' = FALSE
       /\ UNCHANGED <<selectedDoc, question, lastQuestion, k, isLoading, answer, chunks,
                      streamingAnswer, qaLog, alerts, chatSeq>>

\* The lines after the read loop: the answer is recorded, then finally.
Finalise(r, acc) ==
  LET cleaned == cleanLLMAnswer(acc)
  IN /\ answer' = cleaned
     /\ streamingAnswer' = <<>>
     /\ qaLog' = Append(qaLog, [q |-> r.q, a |-> cleaned, chunks |-> <<>>, doc |-> r.doc])
     /\ chatReqs' = chatReqs \ {r}
     /\ askAbortRef' = RefAfter(askAbortRef, r.id)
     /\ isStreaming' = FALSE
     /\ UNCHANGED <<selectedDoc, question, lastQuestion, k, isLoading, chunks, alerts,
                    chatSeq>>

\* await fetch("/chat/stream") settles: the response is OK with a body, or it
\* is not OK, or has no body, or the fetch rejects (network).
StreamResponse ==
  /\ OutsideChat
  /\ \E r \in chatReqs :
    /\ ChatQuiescent
    /\ r.kind = "stream" /\ r.stage = "fetch"
    /\ \/ /\ chatReqs' = (chatReqs \ {r}) \cup {[r EXCEPT !.stage = "read"]}
          /\ chatOp' = ChatOp("streamOpen", r.id)
          /\ UNCHANGED <<selectedDoc, question, lastQuestion, k, isLoading, isStreaming,
                         answer, chunks, streamingAnswer, qaLog, askAbortRef, alerts,
                         chatSeq>>
       \/ /\ NewId <= MaxAsks
          /\ \E err \in {"notOk", "noBody", "network"} : StreamThrow(r, err)
          /\ chatOp' = ChatOp("streamFail", r.id)

\* await reader.read() gives a chunk: one turn of the while loop, and the lines
\* after the loop when a done line ended it.
StreamChunk ==
  /\ OutsideChat
  /\ \E r \in chatReqs, chunk \in ChatChunks :
    LET res == ReadStep(r.buffer, r.acc, <<>>, chunk)
        arrived == CompleteLines(r.buffer, chunk)
        r2 == [r EXCEPT !.buffer = res.buffer, !.acc = res.acc, !.n = r.n + 1,
                        !.errorSeen = r.errorSeen \/ HasLine(arrived, "error"),
                        !.doneSeen = r.doneSeen \/ HasLine(arrived, "done")]
    IN /\ ChatQuiescent
       /\ r.kind = "stream" /\ r.stage = "read"
       /\ r.n < MaxChunks
       /\ IF res.failed
          THEN /\ StreamThrow(r, "Error")
               /\ chatOp' = ChatOp("streamFail", r.id)
          ELSE IF res.isDone
          THEN /\ Finalise(r, res.acc)
               /\ chatOp' = ChatOpWith("finalise", r, res.acc, <<>>)
          ELSE /\ chatReqs' = (chatReqs \ {r}) \cup {r2}
               /\ streamingAnswer' = IF res.acc # r.acc THEN res.acc ELSE streamingAnswer
               /\ chatOp' = ChatOp("chunk", r.id)
               /\ UNCHANGED <<selectedDoc, question, lastQuestion, k, isLoading,
                              isStreaming, answer, chunks, qaLog, askAbortRef, alerts,
                              chatSeq>>

\* await reader.read() gives done: the body ended before any done line.
StreamEnd ==
  /\ OutsideChat
  /\ \E r \in chatReqs :
    /\ ChatQuiescent
    /\ r.kind = "stream" /\ r.stage = "read"
    /\ Finalise(r, r.acc)
    /\ chatOp' = ChatOpWith("finalise", r, r.acc, <<>>)

\* await reader.read() rejects: the connection broke while reading.
StreamReadError ==
  /\ OutsideChat
  /\ \E r \in chatReqs :
    /\ ChatQuiescent
    /\ r.kind = "stream" /\ r.stage = "read"
    /\ NewId <= MaxAsks
    /\ StreamThrow(r, "readError")
    /\ chatOp' = ChatOp("streamFail", r.id)

\* askSync's finally, then the finally of the askStreaming call awaiting it.
SyncReturn(s) ==
  /\ chatReqs' = chatReqs \ {s}
  /\ askAbortRef' = RefAfter(RefAfter(askAbortRef, s.id), s.origin)
  /\ isLoading' = FALSE
  /\ isStreaming' = FALSE

\* await fetch("/chat") settles with an OK response and its JSON.
SyncResponse ==
  /\ OutsideChat
  /\ \E s \in chatReqs, j \in SyncReplies :
    LET text == IF j.answer = Null THEN NoAnswerText ELSE j.answer
        cleaned == cleanLLMAnswer(text)
        ch == j.chunks
    IN /\ ChatQuiescent
       /\ s.kind = "sync"
       /\ answer' = cleaned
       /\ chunks' = ch
       /\ qaLog' = Append(qaLog, [q |-> s.q, a |-> cleaned, chunks |-> ch, doc |-> s.doc])
       /\ SyncReturn(s)
       /\ chatOp' = ChatOpWith("syncOk", s, text, ch)
       /\ UNCHANGED <<selectedDoc, question, lastQuestion, k, streamingAnswer, alerts,
                      chatSeq>>

\* An error thrown inside askSync's try: catch, then the two finally blocks.
SyncThrow(s, err) ==
  /\ alerts' = IF SyncCatch(err) = "alert" THEN alerts + 1 ELSE alerts
  /\ SyncReturn(s)
  /\ UNCHANGED <<selectedDoc, question, lastQuestion, k, answer, chunks, streamingAnswer,
                 qaLog, chatSeq>>

\* await fetch("/chat") settles with a non-OK response, or rejects (network).
SyncFailure ==
  /\ OutsideChat
  /\ \E s \in chatReqs, err \in {"notOk", "network"} :
    /\ ChatQuiescent
    /\ s.kind = "sync"
    /\ SyncThrow(s, err)
    /\ chatOp' = ChatOp("syncFail", s.id)

\* The pending await of an aborted request rejects with an AbortError.
AbortedReturn ==
  /\ OutsideChat
  /\ \E r \in chatReqs :
    /\ r.aborted
    /\ IF r.kind = "stream" THEN StreamThrow(r, "AbortError") ELSE SyncThrow(r, "AbortError")
    /\ chatOp' = ChatOp("aborted", r.id)

\* The Reset button.
Reset ==
  /\ OutsideChat
  /\ selectedDoc # 0
  /\ ChatQuiescent
  /\ question' = <<>>
  /\ answer' = Null
  /\ chunks' = <<>>
  /\ streamingAnswer' = <<>>
  /\ chatReqs' = AbortAsk(chatReqs, askAbortRef)
  /\ chatOp' = ChatOp("reset", 0)
  /\ UNCHANGED <<selectedDoc, lastQuestion, k, isLoading, isStreaming, qaLog,
                 askAbortRef, alerts, chatSeq>>

\* Typing in the textarea.
SetQuestionOf(texts) ==
  /\ OutsideChat
  /\ \E t \in texts :
    /\ selectedDoc # 0
    /\ ChatQuiescent
    /\ t # question
    /\ question' = t
    /\ chatOp' = ChatOp("type", 0)
    /\ UNCHANGED <<selectedDoc, lastQuestion, k, isLoading, isStreaming, answer, chunks,
                   streamingAnswer, qaLog, askAbortRef, chatReqs, alerts, chatSeq>>

SetQuestion == SetQuestionOf(Questions)

\* Moving the k slider.
SetK ==
  /\ OutsideChat
  /\ \E v \in KValues :
    /\ selectedDoc # 0
    /\ ChatQuiescent
    /\ v # k
    /\ k' = v
    /\ chatOp' = ChatOp("k", 0)
    /\ UNCHANGED <<selectedDoc, question, lastQuestion, isLoading, isStreaming, answer,
                   chunks, streamingAnswer, qaLog, askAbortRef, chatReqs, alerts, chatSeq>>

\* ChatPanel as mounted for the selected document.
InitChat ==
  /\ selectedDoc = 1
  /\ question = <<>>
  /\ lastQuestion = Null
  /\ k = 6
  /\ isLoading = FALSE
  /\ isStreaming = FALSE
  /\ answer = Null
  /\ chunks = <<>>
  /\ streamingAnswer = <<>>
  /\ qaLog = <<>>
  /\ askAbortRef = 0
  /\ chatReqs = {}
  /\ alerts = 0
  /\ chatSeq = 0
  /\ chatOp = ChatOp("init", 0)

(***************************************************************************)
(* JSON values and normalizeSearchPayload                                  *)
(***************************************************************************)
\* A JSON field as JavaScript sees it: absent (undefined), null or a number;
\* NaN is what Number() makes of undefined.
Undefined == [t |-> "undefined", v |-> 0]
JNull == [t |-> "null", v |-> 0]
NaN == [t |-> "NaN", v |-> 0]
Num(n) == [t |-> "number", v |-> n]

\* Number(x)
ToNumber(x) ==
  CASE x.t = "number" -> x
    [] x.t = "null" -> Num(0)
    [] OTHER -> NaN

\* x ?? d
Coalesce(x, d) == IF x.t \in {"null", "undefined"} THEN Num(d) ELSE x

\* x || d, for a number x: NaN and 0 are falsy
OrElse(x, d) == IF x.t = "NaN" \/ x.v = 0 THEN d ELSE x.v

\* Number.isFinite(x) && x > 0
IsFinitePositive(x) == x.t = "number" /\ x.v > 0

Max(a, b) == IF a >= b THEN a ELSE b
Min(a, b) == IF a <= b THEN a ELSE b

\* Math.floor(a / b) and Math.ceil(a / b) for b > 0
FloorDiv(a, b) == a \div b
CeilDiv(a, b) == -((-a) \div b)

\* A parsed payload.  kind is "object", "array" or "other" (null, a string, a
\* number); items are the elements of an array payload; an array has none of
\* the named fields, so reading them gives undefined.
Payload(kind, items, hitsIsArray, hits, lim, off, nxt, prv, total, pg, pages) ==
  [kind |-> kind, items |-> items, hitsIsArray |-> hitsIsArray, hits |-> hits,
   limit |-> lim, offset |-> off, next_offset |-> nxt, prev_offset |-> prv,
   total_count |-> total, page |-> pg, total_pages |-> pages]

ArrayPayload(items) ==
  Payload("array", items, FALSE, <<>>, Undefined, Undefined, Undefined, Undefined,
          Undefined, Undefined, Undefined)

OtherPayload ==
  Payload("other", <<>>, FALSE, <<>>, Undefined, Undefined, Undefined, Undefined,
          Undefined, Undefined, Undefined)

\* typeof value === "object" && value !== null: true of arrays too
isObject(value) == value.kind \in {"object", "array"}

\* Array.isArray(data)
IsArray(value) == value.kind = "array"

DefaultNorm(hits) ==
  [hits |-> hits, limit |-> 10, offset |-> 0, nextOffset |-> JNull,
   prevOffset |-> JNull, totalCount |-> JNull, page |-> 1, totalPages |-> JNull]

normalizeSearchPayload(d) ==
  IF isObject(d)
  THEN LET hits == IF d.hitsIsArray THEN d.hits ELSE <<>>
           lim == Max(1, OrElse(ToNumber(Coalesce(d.limit, 10)), 10))
           off == Max(0, OrElse(ToNumber(Coalesce(d.offset, 0)), 0))
           nextOff == IF d.next_offset.t \in {"null", "undefined"}
                      THEN JNull ELSE ToNumber(d.next_offset)
           prevOff == IF d.prev_offset.t \in {"null", "undefined"}
                      THEN JNull ELSE ToNumber(d.prev_offset)
           total == IF d.total_count.t = "number" THEN d.total_count ELSE JNull
           pageFromApi == ToNumber(d.page)
           totalPagesFromApi == ToNumber(d.total_pages)
           computedPage == FloorDiv(off, Max(1, lim)) + 1
           pg == IF IsFinitePositive(pageFromApi) THEN pageFromApi.v ELSE computedPage
           pages == IF IsFinitePositive(totalPagesFromApi)
                    THEN totalPagesFromApi
                    ELSE IF total # JNull
                         THEN Num(Max(1, CeilDiv(total.v, Max(1, lim))))
                         ELSE JNull
       IN [hits |-> hits, limit |-> lim, offset |-> off, nextOffset |-> nextOff,
           prevOffset |-> prevOff, totalCount |-> total, page |-> pg,
           totalPages |-> pages]
  ELSE IF IsArray(d)
       THEN DefaultNorm(d.items)
       ELSE DefaultNorm(<<>>)

(***************************************************************************)
(* normalizeSearchPayload applied to one payload (SpecNorm)                *)
(***************************************************************************)
MaxNum == 3

FieldValues == {Undefined, JNull} \cup {Num(n) : n \in -1 .. MaxNum}

ObjectPayloads ==
  { Payload("object", <<>>, h.isArray, h.hits, lim, off, nxt, prv, total, pg, pages) :
      h \in {[isArray |-> FALSE, hits |-> <<>>], [isArray |-> TRUE, hits |-> <<1, 2>>]},
      lim \in FieldValues, off \in FieldValues, total \in FieldValues,
      nxt \in {Undefined, JNull, Num(MaxNum)}, prv \in {JNull, Num(0)},
      pg \in {Undefined, Num(0), Num(MaxNum)},
      pages \in {JNull, Num(0), Num(MaxNum)} }

ArrayPayloads == { ArrayPayload(items) : items \in {<<>>, <<1>>, <<1, 2>>} }

Payloads == ObjectPayloads \cup ArrayPayloads \cup {OtherPayload}

NoNorm == [DefaultNorm(<<>>) EXCEPT !.limit = 0]

InitNorm ==
  /\ data \in Payloads
  /\ norm = NoNorm
  /\ normCalled = FALSE

Normalize ==
  /\ ~normCalled
  /\ norm' = normalizeSearchPayload(data)
  /\ normCalled' = TRUE
  /\ UNCHANGED data
  /\ OutsideNorm

NextNorm == Normalize

(***************************************************************************)
(* PageBody: search box, debounce, doSearch, expansion with lazy preview   *)
(***************************************************************************)
MaxSearches == 2
MaxPreviews == 2

DocIds == {1, 2}
SearchQueries == { <<>>, <<"a">>, <<"b", " ">> }
Examples == { <<"a">> }
PageSizes == {10, 12}
ErrText == <<"500">>

\* The address the page is opened with.
InitialUrls ==
  { [q |-> <<>>, limit |-> Undefined, offset |-> Undefined, doc |-> Undefined],
    [q |-> <<"a">>, limit |-> Num(10), offset |-> Num(10), doc |-> Undefined] }

urlQ(u) == u.q
urlLimit(u) == Max(1, Min(50, OrElse(ToNumber(Coalesce(u.limit, 12)), 12)))
urlOffset(u) == Max(0, OrElse(ToNumber(Coalesce(u.offset, 0)), 0))

Range(s) == { s[i] : i \in DOMAIN s }

NoTimer == [q |-> <<>>, lim |-> 0]
Timer(q, lim) == [q |-> q, lim |-> lim]

SearchReq(id, q, off, lim) == [id |-> id, q |-> q, off |-> off, lim |-> lim, aborted |-> FALSE]
PreviewReq(id, doc) == [id |-> id, doc |-> doc, aborted |-> FALSE]

SearchOp(name, id) == [name |-> name, id |-> id]

\* What the server may answer to a request: a full page object that echoes
\* limit and offset, or a bare object with hits only.
ServerPayloads(r) ==
  { Payload("object", <<>>, TRUE, <<1, 2>>, Num(r.lim), Num(r.off), Num(r.off + r.lim),
            JNull, Num(25), Undefined, Undefined),
    Payload("object", <<>>, TRUE, <<2>>, Undefined, Undefined, Undefined, Undefined,
            Undefined, Undefined, Undefined) }

\* The continuation of an aborted fetch runs before any other event.
SearchQuiescent ==
  /\ \A r \in searchReqs : ~r.aborted
  /\ \A p \in previewReqs : ~p.aborted

\* A faulty variant: a doSearch that leaves the request in flight alone
AbortSearchNever(reqs, ref) == reqs

\* searchAbortRef.current?.abort()
AbortSearch(reqs, ref) ==
  { IF r.id = ref THEN [r EXCEPT !.aborted = TRUE] ELSE r : r \in reqs }

\* A faulty variant: a cleanup that clears nothing
ClearTimeoutNever(bag, handle) == bag

\* clearTimeout(handle): nothing happens when the timer has fired.
ClearTimeout(bag, handle) ==
  IF handle = NoTimer THEN bag ELSE bag (-) SetToBag({handle})

\* A faulty variant: a preview fetched again whenever the stored outcome is not metadata
NeedsPreviewUnlessMeta(meta, id) == meta[id] # "meta"

\* expandedMeta[idNum] === undefined
NeedsPreview(meta, id) == meta[id] = "undefined"

NoMeta == [d \in DocIds |-> "undefined"]
NoRefs == [d \in DocIds |-> 0]

\* The debounce effect for a render with query q and limit lim: the cleanup of
\* the previous run, then the reset for a blank query or a new 300 ms timer.
DebounceEffect(q, lim) ==
  LET cleared == ClearTimeout(timers, debounceHandle)
  IN IF Trim(q) = <<>>
     THEN /\ results' = <<>>
          /\ expandedMeta' = NoMeta
          /\ expandedSet' = {}
          /\ nextOffset' = JNull
          /\ prevOffset' = JNull
          /\ totalCount' = JNull
          /\ totalPages' = JNull
          /\ page' = 1
          /\ offset' = 0
          /\ pageInput' = 1
          /\ timers' = cleared
          /\ debounceHandle' = NoTimer
     ELSE /\ timers' = cleared (+) SetToBag({Timer(q, lim)})
          /\ debounceHandle' = Timer(q, lim)
          /\ UNCHANGED <<results, expandedMeta, expandedSet, nextOffset, prevOffset,
                         totalCount, totalPages, page, offset, pageInput>>

NoDebounceEffect ==
  UNCHANGED <<results, expandedMeta, expandedSet, nextOffset, prevOffset, totalCount,
              totalPages, page, offset, pageInput, timers, debounceHandle>>

\* doSearch(qStr, off, lim) up to its await fetch.
DoSearch(qStr, off, lim) ==
  LET q == sanitizeText(qStr, MAX_SEARCH_LEN)
  IN IF q = <<>>
     THEN UNCHANGED <<url, searchAbortRef, searchReqs, isSearching, errorMsg, searchSeq>>
     ELSE /\ searchSeq < MaxSearches
          /\ url' = [q |-> q, limit |-> Num(lim), offset |-> Num(off), doc |-> Undefined]
          /\ searchReqs' = AbortSearch(searchReqs, searchAbortRef)
                             \cup {SearchReq(searchSeq + 1, q, off, lim)}
          /\ searchAbortRef' = searchSeq + 1
          /\ isSearching' = TRUE
          /\ errorMsg' = Null
          /\ searchSeq' = searchSeq + 1

NoDoSearch ==
  UNCHANGED <<url, searchAbortRef, searchReqs, isSearching, errorMsg, searchSeq>>

InitSearchAt(urls) ==
  /\ mounted = FALSE
  /\ url \in urls
  /\ query = urlQ(url)
  /\ isSearching = FALSE
  /\ results = <<>>
  /\ limit = urlLimit(url)
  /\ offset = urlOffset(url)
  /\ nextOffset = JNull
  /\ prevOffset = JNull
  /\ totalCount = JNull
  /\ page = 1
  /\ totalPages = JNull
  /\ pageInput = 1
  /\ expandedMeta = NoMeta
  /\ expandedSet = {}
  /\ errorMsg = Null
  /\ searchAbortRef = 0
  /\ metaAbortRef = NoRefs
  /\ timers = EmptyBag
  /\ debounceHandle = NoTimer
  /\ searchReqs = {}
  /\ previewReqs = {}
  /\ searchSeq = 0
  /\ previewSeq = 0
  /\ searchOp = SearchOp("init", 0)

InitSearch == InitSearchAt(InitialUrls)

\* The effects of the first render: the debounce effect, the document of the
\* address's doc, then the search for the address's q.
Mount ==
  /\ ~mounted
  /\ mounted' = TRUE
  /\ DebounceEffect(query, limit)
  /\ IF Trim(urlQ(url)) # <<>>
     THEN DoSearch(urlQ(url), urlOffset(url), urlLimit(url))
     ELSE NoDoSearch
  /\ searchOp' = SearchOp("mount", searchSeq')
  /\ selectedDoc' = (IF url.doc.t = "number" THEN url.doc.v ELSE selectedDoc)
  /\ UNCHANGED <<query, limit, metaAbortRef, previewReqs, previewSeq>>
  /\ UNCHANGED <<question, lastQuestion, k, isLoading, isStreaming, answer, chunks,
                 streamingAnswer, qaLog, askAbortRef, chatReqs, alerts, chatSeq, chatOp>>
  /\ UNCHANGED <<streamVars, otherVars>>

\* The search box's onChange, and the debounce effect of the render it causes.
SetQuery ==
  /\ mounted /\ SearchQuiescent
  /\ \E q \in SearchQueries :
       /\ q # query
       /\ query' = q
       /\ DebounceEffect(q, limit)
       /\ searchOp' = SearchOp("type", 0)
  /\ NoDoSearch
  /\ UNCHANGED <<mounted, limit, metaAbortRef, previewReqs, previewSeq>>
  /\ OutsideSearch

\* A debounce timer runs out.
TimerFire ==
  /\ mounted /\ SearchQuiescent
  /\ \E t \in BagToSet(timers) :
       /\ timers' = timers (-) SetToBag({t})
       /\ offset' = 0
       /\ pageInput' = 1
       /\ DoSearch(t.q, 0, t.lim)
       /\ searchOp' = SearchOp("timer", searchSeq')
  /\ UNCHANGED <<mounted, query, limit, results, expandedMeta, expandedSet, nextOffset,
                 prevOffset, totalCount, totalPages, page, debounceHandle,
                 metaAbortRef, previewReqs, previewSeq>>
  /\ OutsideSearch

\* The form's submit; the button is disabled on a blank query and while
\* isSearching.
SubmitSearch ==
  /\ mounted /\ SearchQuiescent
  /\ Trim(query) # <<>> /\ ~isSearching
  /\ DoSearch(query, 0, limit)
  /\ searchOp' = SearchOp("submit", searchSeq')
  /\ NoDebounceEffect
  /\ UNCHANGED <<mounted, query, limit, metaAbortRef, previewReqs, previewSeq>>
  /\ OutsideSearch

\* A 'Try:' button.
PickExample ==
  /\ mounted /\ SearchQuiescent
  /\ \E ex \in Examples :
       LET clipped == sanitizeText(ex, MAX_SEARCH_LEN)
       IN /\ query' = clipped
          /\ DoSearch(clipped, 0, limit)
          /\ IF clipped # query THEN DebounceEffect(clipped, limit) ELSE NoDebounceEffect
          /\ searchOp' = SearchOp("example", searchSeq')
  /\ UNCHANGED <<mounted, limit, metaAbortRef, previewReqs, previewSeq>>
  /\ OutsideSearch

\* The page-size select.
ChangeLimit ==
  /\ mounted /\ SearchQuiescent
  /\ \E n \in PageSizes :
       LET newLimit == Max(1, Min(50, OrElse(Num(n), 10)))
       IN /\ n # limit
          /\ limit' = newLimit
          /\ DoSearch(query, 0, newLimit)
          /\ searchOp' = SearchOp("pageSize", searchSeq')
  /\ NoDebounceEffect
  /\ UNCHANGED <<mounted, query, metaAbortRef, previewReqs, previewSeq>>
  /\ OutsideSearch

AbortText == <<"aborted">>

\* A faulty variant: a catch that shows the message of every error
SearchCatchAll(err, msg, shown) == msg

\* doSearch's catch: the message of any error but an AbortError is shown.
SearchCatch(err, msg, shown) == IF err = "AbortError" THEN shown ELSE msg

\* doSearch's finally.
SearchFinally(r) ==
  /\ searchAbortRef' = RefAfter(searchAbortRef, r.id)
  /\ isSearching' = FALSE
  /\ searchReqs' = searchReqs \ {r}

\* An OK response with a JSON body, one of Answers(r), reaches doSearch.
SearchResponseWith(Answers(_)) ==
  /\ SearchQuiescent
  /\ \E r \in searchReqs : \E payload \in Answers(r) :
       LET n == normalizeSearchPayload(payload)
       IN /\ results' = n.hits
          /\ limit' = n.limit
          /\ offset' = n.offset
          /\ nextOffset' = n.nextOffset
          /\ prevOffset' = n.prevOffset
          /\ totalCount' = n.totalCount
          /\ page' = n.page
          /\ totalPages' = n.totalPages
          /\ pageInput' = (IF n.page # 0 THEN n.page
                           ELSE FloorDiv(n.offset, Max(1, n.limit)) + 1)
          /\ expandedMeta' = NoMeta
          /\ expandedSet' = {}
          /\ SearchFinally(r)
          /\ searchOp' = SearchOp("searchOk", r.id)
  /\ UNCHANGED <<mounted, url, query, errorMsg, metaAbortRef, timers, debounceHandle,
                 previewReqs, searchSeq, previewSeq>>
  /\ OutsideSearch

SearchResponse == SearchResponseWith(ServerPayloads)

\* A non-OK response, a rejected fetch or an unreadable body.
SearchFailure ==
  /\ SearchQuiescent
  /\ \E r \in searchReqs :
       /\ errorMsg' = SearchCatch("Error", ErrText, errorMsg)
       /\ SearchFinally(r)
       /\ searchOp' = SearchOp("searchFail", r.id)
  /\ UNCHANGED <<mounted, url, query, results, limit, offset, nextOffset, prevOffset,
                 totalCount, page, totalPages, pageInput, expandedMeta, expandedSet,
                 metaAbortRef, timers, debounceHandle, previewReqs, searchSeq,
                 previewSeq>>
  /\ OutsideSearch

\* The fetch of an aborted doSearch rejects with an AbortError.
SearchAbortedReturn ==
  /\ \E r \in searchReqs :
       /\ r.aborted
       /\ errorMsg' = SearchCatch("AbortError", AbortText, errorMsg)
       /\ SearchFinally(r)
       /\ searchOp' = SearchOp("searchAborted", r.id)
  /\ UNCHANGED <<mounted, url, query, results, limit, offset, nextOffset, prevOffset,
                 totalCount, page, totalPages, pageInput, expandedMeta, expandedSet,
                 metaAbortRef, timers, debounceHandle, previewReqs, searchSeq,
                 previewSeq>>
  /\ OutsideSearch

\* A click on a result.
ToggleExpand ==
  /\ mounted /\ SearchQuiescent
  /\ \E idNum \in Range(results) :
       LET willOpen == idNum \notin expandedSet
       IN IF willOpen
          THEN /\ expandedSet' = expandedSet \cup {idNum}
               /\ IF NeedsPreview(expandedMeta, idNum)
                  THEN /\ previewSeq < MaxPreviews
                       /\ previewReqs' =
                            { IF p.id = metaAbortRef[idNum]
                              THEN [p EXCEPT !.aborted = TRUE] ELSE p : p \in previewReqs }
                              \cup {PreviewReq(previewSeq + 1, idNum)}
                       /\ metaAbortRef' = [metaAbortRef EXCEPT ![idNum] = previewSeq + 1]
                       /\ previewSeq' = previewSeq + 1
                  ELSE UNCHANGED <<previewReqs, metaAbortRef, previewSeq>>
               /\ searchOp' = SearchOp("expand", idNum)
          ELSE /\ expandedSet' = expandedSet \ {idNum}
               /\ UNCHANGED <<previewReqs, metaAbortRef, previewSeq>>
               /\ searchOp' = SearchOp("collapse", idNum)
  /\ NoDoSearch
  /\ UNCHANGED <<mounted, query, limit, results, expandedMeta, nextOffset, prevOffset,
                 totalCount, totalPages, page, offset, pageInput, timers,
                 debounceHandle>>
  /\ OutsideSearch

\* toggleExpand after its await: the outcome is stored, and the controller
\* leaves the map when it is still the document's.
StorePreview(p, outcome) ==
  /\ expandedMeta' = [expandedMeta EXCEPT ![p.doc] = outcome]
  /\ metaAbortRef' = [metaAbortRef EXCEPT ![p.doc] = RefAfter(@, p.id)]
  /\ previewReqs' = previewReqs \ {p}

\* fetchDocPreview returns: the metadata, or null for a non-OK response, a
\* failed fetch or a body that is not an object.
PreviewResponse ==
  /\ SearchQuiescent
  /\ \E p \in previewReqs : \E outcome \in {"meta", "null"} :
       /\ StorePreview(p, outcome)
       /\ searchOp' = SearchOp("previewDone", p.doc)
  /\ NoDoSearch
  /\ UNCHANGED <<mounted, query, limit, results, expandedSet, nextOffset, prevOffset,
                 totalCount, totalPages, page, offset, pageInput, timers,
                 debounceHandle, previewSeq>>
  /\ OutsideSearch

\* The fetch of an aborted preview rejects; fetchDocPreview's catch returns null.
PreviewAbortedReturn ==
  /\ \E p \in previewReqs :
       /\ p.aborted
       /\ StorePreview(p, "null")
       /\ searchOp' = SearchOp("previewAborted", p.doc)
  /\ NoDoSearch
  /\ UNCHANGED <<mounted, query, limit, results, expandedSet, nextOffset, prevOffset,
                 totalCount, totalPages, page, offset, pageInput, timers,
                 debounceHandle, previewSeq>>
  /\ OutsideSearch

NextSearch ==
  \/ Mount
  \/ SetQuery
  \/ TimerFire
  \/ SubmitSearch
  \/ PickExample
  \/ ChangeLimit
  \/ SearchResponse
  \/ SearchFailure
  \/ SearchAbortedReturn
  \/ ToggleExpand
  \/ PreviewResponse
  \/ PreviewAbortedReturn

SearchIdle ==
  /\ mounted = FALSE
  /\ url = [q |-> <<>>, limit |-> Undefined, offset |-> Undefined, doc |-> Undefined]
  /\ query = <<>> /\ isSearching = FALSE /\ results = <<>> /\ limit = 12 /\ offset = 0
  /\ nextOffset = JNull /\ prevOffset = JNull /\ totalCount = JNull /\ page = 1
  /\ totalPages = JNull /\ pageInput = 1 /\ expandedMeta = NoMeta /\ expandedSet = {}
  /\ errorMsg = Null /\ searchAbortRef = 0 /\ metaAbortRef = NoRefs
  /\ timers = EmptyBag /\ debounceHandle = NoTimer /\ searchReqs = {}
  /\ previewReqs = {} /\ searchSeq = 0 /\ previewSeq = 0
  /\ searchOp = SearchOp("init", 0)

(***************************************************************************)
(* PageBody: the selected document and the ChatPanel mounted for it        *)
(***************************************************************************)
\* A faulty variant: a ChatPanel mounted without a key
ChatKeyNone(doc) == 0

\* key={`chat-${selectedDoc.id}`}
ChatKey(doc) == doc

\* A request of an unmounted ChatPanel: its continuation will call the setters
\* of that panel, which change nothing on the page.
Orphan(r) == [id |-> r.id, doc |-> r.doc]

\* A ChatPanel instance goes away (its requests are not aborted), and the
\* state of the next one is the initial state.
UnmountChatPanel ==
  /\ question' = <<>>
  /\ lastQuestion' = Null
  /\ k' = 6
  /\ isLoading' = FALSE
  /\ isStreaming' = FALSE
  /\ answer' = Null
  /\ chunks' = <<>>
  /\ streamingAnswer' = <<>>
  /\ qaLog' = <<>>
  /\ askAbortRef' = 0
  /\ chatReqs' = {}
  /\ orphanReqs' = orphanReqs \cup { Orphan(r) : r \in chatReqs }

KeepChatPanel ==
  UNCHANGED <<question, lastQuestion, k, isLoading, isStreaming, answer, chunks,
              streamingAnswer, qaLog, askAbortRef, chatReqs, orphanReqs>>

\* 'Chat with this judgment' on an expanded result: handleSelectDoc.
SelectDoc ==
  /\ mounted /\ SearchQuiescent /\ ChatQuiescent
  /\ \E id \in Range(results) \cap expandedSet :
       /\ selectedDoc' = id
       /\ url' = [url EXCEPT !.doc = Num(id)]
       /\ IF selectedDoc # 0 /\ ChatKey(id) = ChatKey(selectedDoc)
          THEN KeepChatPanel
          ELSE UnmountChatPanel
       /\ searchOp' = SearchOp("select", id)
       /\ chatOp' = ChatOp("select", 0)
  /\ UNCHANGED <<alerts, chatSeq>>
  /\ UNCHANGED <<mounted, query, isSearching, results, limit, offset, nextOffset,
                 prevOffset, totalCount, page, totalPages, pageInput, expandedMeta,
                 expandedSet, errorMsg, searchAbortRef, metaAbortRef, timers,
                 debounceHandle, searchReqs, previewReqs, searchSeq, previewSeq>>
  /\ UNCHANGED <<streamVars, normVars, pdfVars, themeVars>>

\* ChatPanel's 'clear selection' button: onClear.
ClearDoc ==
  /\ mounted /\ SearchQuiescent /\ ChatQuiescent
  /\ selectedDoc # 0
  /\ selectedDoc' = 0
  /\ url' = [url EXCEPT !.doc = Undefined]
  /\ UnmountChatPanel
  /\ searchOp' = SearchOp("clear", 0)
  /\ chatOp' = ChatOp("clear", 0)
  /\ UNCHANGED <<alerts, chatSeq>>
  /\ UNCHANGED <<mounted, query, isSearching, results, limit, offset, nextOffset,
                 prevOffset, totalCount, page, totalPages, pageInput, expandedMeta,
                 expandedSet, errorMsg, searchAbortRef, metaAbortRef, timers,
                 debounceHandle, searchReqs, previewReqs, searchSeq, previewSeq>>
  /\ UNCHANGED <<streamVars, normVars, pdfVars, themeVars>>

\* A request of an unmounted ChatPanel comes to its end: answered, or failed
\* on both endpoints, which raises the alert.
OrphanSettle ==
  /\ ChatQuiescent
  /\ \E o \in orphanReqs : \E outcome \in {"answered", "failed"} :
       /\ orphanReqs' = orphanReqs \ {o}
       /\ alerts' = (IF outcome = "failed" THEN alerts + 1 ELSE alerts)
       /\ chatOp' = ChatOp("orphan", o.id)
  /\ UNCHANGED <<selectedDoc, question, lastQuestion, k, isLoading, isStreaming, answer,
                 chunks, streamingAnswer, qaLog, askAbortRef, chatReqs, chatSeq>>
  /\ UNCHANGED <<streamVars, searchVars, normVars, pdfVars, themeVars>>

\* The page after a search for "a" gave two hits, both were expanded and the
\* first was chosen for the chat.
PageShowingHits ==
  /\ mounted = TRUE
  /\ url = [q |-> <<"a">>, limit |-> Num(12), offset |-> Num(0), doc |-> Num(1)]
  /\ query = <<"a">> /\ isSearching = FALSE /\ results = <<1, 2>>
  /\ limit = 12 /\ offset = 0 /\ nextOffset = Num(12) /\ prevOffset = JNull
  /\ totalCount = Num(25) /\ page = 1 /\ totalPages = Num(3) /\ pageInput = 1
  /\ expandedMeta = [d \in DocIds |-> "meta"] /\ expandedSet = {1, 2}
  /\ errorMsg = Null /\ searchAbortRef = 0 /\ metaAbortRef = NoRefs
  /\ timers = EmptyBag /\ debounceHandle = Timer(<<"a">>, 12) /\ searchReqs = {}
  /\ previewReqs = {} /\ searchSeq = 1 /\ previewSeq = 2
  /\ searchOp = SearchOp("select", 1)

NextChat ==
  \/ SetQuestion
  \/ SetK
  \/ AskStreaming
  \/ StreamResponse
  \/ StreamChunk
  \/ StreamEnd
  \/ StreamReadError
  \/ SyncResponse
  \/ SyncFailure
  \/ AbortedReturn
  \/ Reset

\* ChatPanel with the choice of a document: asking, answers by stream or by
\* the sync fallback, choosing another document and clearing the choice.
NextPanel ==
  \/ SetQuestion
  \/ AskStreaming
  \/ StreamResponse
  \/ StreamChunk
  \/ StreamEnd
  \/ SyncResponse
  \/ AbortedReturn
  \/ SelectDoc
  \/ ClearDoc
  \/ OrphanSettle

\* PageBody with the choice of a document: searching, expanding, choosing
\* and clearing.
NextDoc ==
  \/ Mount
  \/ SetQuery
  \/ TimerFire
  \/ SubmitSearch
  \/ SearchResponse
  \/ SearchAbortedReturn
  \/ ToggleExpand
  \/ PreviewResponse
  \/ PreviewAbortedReturn
  \/ SelectDoc
  \/ ClearDoc

(***************************************************************************)
(* The PDF drawer: platform detectors and the drawer body                  *)
(***************************************************************************)
\* A user agent, by the patterns the detectors test: /iPad|iPhone|iPod/,
\* /Macintosh/, "ontouchend" in document, /Android/i, /Firefox\/\d+/, /\bwv\b/,
\* /Chrome\/\d+/ and /Version\/\d+\.\d+/.
UserAgents ==
  [iDevice : BOOLEAN, macintosh : BOOLEAN, touch : BOOLEAN, android : BOOLEAN,
   firefox : BOOLEAN, wv : BOOLEAN, chrome : BOOLEAN, version : BOOLEAN]

NoUserAgent ==
  [iDevice |-> FALSE, macintosh |-> FALSE, touch |-> FALSE, android |-> FALSE,
   firefox |-> FALSE, wv |-> FALSE, chrome |-> FALSE, version |-> FALSE]

\* const env = React.useMemo(...)
env(ua) ==
  LET isIOSDevice == ua.iDevice
      isIPadOS13Plus == ua.macintosh /\ ua.touch
      isIOS == isIOSDevice \/ isIPadOS13Plus
      isAndroid == ua.android
      isFirefoxAndroid == isAndroid /\ ua.firefox
      isAndroidWebView == isAndroid /\ (ua.wv \/ (~ua.chrome /\ ua.version))
      inlinePdfLikelySupported == isAndroid /\ ~isFirefoxAndroid /\ ~isAndroidWebView
  IN [isIOS |-> isIOS, isAndroid |-> isAndroid, isFirefoxAndroid |-> isFirefoxAndroid,
      isAndroidWebView |-> isAndroidWebView,
      inlinePdfLikelySupported |-> inlinePdfLikelySupported]

\* A faulty variant: a drawer body without the iOS branch
DrawerBodyNoEmbed(e) == IF e.inlinePdfLikelySupported THEN "iframe" ELSE "fallback"

\* The drawer body: env.isIOS ? <embed> : env.inlinePdfLikelySupported ?
\* <iframe> : the 'Open in new tab' fallback.
DrawerBody(e) ==
  IF e.isIOS THEN "embed"
  ELSE IF e.inlinePdfLikelySupported THEN "iframe"
  ELSE "fallback"

InitPdf ==
  /\ userAgent \in UserAgents
  /\ pdfPanel = 0
  /\ pdfView = "none"

\* 'View Judgement' on a result: handleOpenPdf, and the render of the drawer.
OpenPdf ==
  /\ \E docId \in DocIds :
       /\ pdfPanel' = docId
       /\ pdfView' = DrawerBody(env(userAgent))
  /\ UNCHANGED userAgent
  /\ OutsidePdf

\* The Close buttons and the Esc key.
ClosePdf ==
  /\ pdfPanel # 0
  /\ pdfPanel' = 0
  /\ pdfView' = "none"
  /\ UNCHANGED userAgent
  /\ OutsidePdf

NextPdf == OpenPdf \/ ClosePdf

PdfIdle == userAgent = NoUserAgent /\ pdfPanel = 0 /\ pdfView = "none"

(***************************************************************************)
(* The theme: initTheme, ThemeSwitch and the page's own theme              *)
(***************************************************************************)
Light == <<"l", "i", "g", "h", "t">>
Dark == <<"d", "a", "r", "k">>
Sepia == <<"s", "e", "p", "i", "a">>
DeepDark == <<"d", "e", "e", "p", "-", "d", "a", "r", "k">>

\* Three of ThemeSwitch's THEMES, and one of the names the page's useTheme
\* stores under the same localStorage key.
THEMES == {Light, Dark, Sepia}
PageThemes == {DeepDark}

\* The characters encodeURIComponent escapes, among those of the model.
Escaped(c) ==
  CASE c = " " -> <<"%", "2", "0">>
    [] c = ";" -> <<"%", "3", "B">>
    [] c = "%" -> <<"%", "2", "5">>
    [] OTHER -> <<c>>

RECURSIVE encodeURIComponent(_)
encodeURIComponent(s) ==
  IF s = <<>> THEN <<>> ELSE Escaped(Head(s)) \o encodeURIComponent(Tail(s))

Malformed == <<"URIError">>

Unescaped(pair) ==
  CASE pair = <<"2", "0">> -> <<" ">>
    [] pair = <<"3", "B">> -> <<";">>
    [] pair = <<"2", "5">> -> <<"%">>
    [] OTHER -> Malformed

\* decodeURIComponent throws on a '%' that no escape follows.
RECURSIVE decodeURIComponent(_)
decodeURIComponent(s) ==
  IF s = <<>> THEN <<>>
  ELSE IF Head(s) # "%"
       THEN LET rest == decodeURIComponent(Tail(s))
            IN IF rest = Malformed THEN Malformed ELSE <<Head(s)>> \o rest
       ELSE IF Len(s) < 3 \/ Unescaped(SubSeq(s, 2, 3)) = Malformed
            THEN Malformed
            ELSE LET rest == decodeURIComponent(SubSeq(s, 4, Len(s)))
                 IN IF rest = Malformed THEN Malformed
                    ELSE Unescaped(SubSeq(s, 2, 3)) \o rest

\* document.cookie.match(/(?:^|; )theme=([^;]+)/): the stored value of the
\* theme cookie, when there is one and it is not empty.
CookieMatch(cookie) == cookie # Null /\ cookie # <<>>

\* x || d for a string or null x
StringOr(x, d) == IF x = Null \/ x = <<>> THEN d ELSE x

\* A faulty variant: localStorage asked before the cookie
InitThemeStorageFirst(cookie, stored) ==
  IF stored # Null /\ stored # <<>> THEN stored
  ELSE IF CookieMatch(cookie) THEN decodeURIComponent(cookie) ELSE Light

\* initTheme's t
InitThemeChoice(cookie, stored) ==
  IF CookieMatch(cookie) THEN decodeURIComponent(cookie) ELSE StringOr(stored, Light)

\* localStorage.setItem(STORAGE_KEY, v) inside try/catch
SetItem(stored, v) == IF storageWritable THEN v ELSE stored

InitTheme ==
  /\ themeCookie \in {Null, encodeURIComponent(Dark)}
  /\ themeStorage \in {Null, Sepia, DeepDark}
  /\ storageWritable \in BOOLEAN
  /\ pageStage = "closed"
  /\ dataTheme = Null
  /\ switchTheme = Light
  /\ lastSelected = Null

\* The page is opened: the initTheme script runs before React.
LoadPage ==
  /\ pageStage = "closed"
  /\ pageStage' = "scripted"
  /\ LET t == InitThemeChoice(themeCookie, themeStorage)
     IN dataTheme' = (IF t = Malformed THEN dataTheme ELSE t)
  /\ UNCHANGED <<themeCookie, themeStorage, storageWritable, switchTheme, lastSelected>>
  /\ OutsideTheme

\* ThemeSwitch's mount effect.
MountThemeSwitch ==
  /\ pageStage = "scripted"
  /\ pageStage' = "mounted"
  /\ LET initial == StringOr(dataTheme, Light)
         saved == StringOr(themeStorage, Null)
     IN /\ switchTheme' = initial
        /\ themeStorage' = (IF saved = Null \/ saved # initial
                            THEN SetItem(themeStorage, initial) ELSE themeStorage)
  /\ UNCHANGED <<themeCookie, storageWritable, dataTheme, lastSelected>>
  /\ OutsideTheme

\* ThemeSwitch's onChange.
SelectTheme ==
  /\ pageStage = "mounted"
  /\ \E next \in THEMES :
       /\ next # switchTheme
       /\ switchTheme' = next
       /\ dataTheme' = next
       /\ themeStorage' = SetItem(themeStorage, next)
       /\ themeCookie' = encodeURIComponent(next)
       /\ lastSelected' = next
  /\ UNCHANGED <<storageWritable, pageStage>>
  /\ OutsideTheme

\* The page's own theme picker: changeTheme of useTheme.
PageChangeTheme ==
  /\ pageStage = "mounted"
  /\ storageWritable
  /\ \E name \in PageThemes :
       /\ themeStorage # name
       /\ themeStorage' = name
  /\ UNCHANGED <<themeCookie, storageWritable, pageStage, dataTheme, switchTheme,
                 lastSelected>>
  /\ OutsideTheme

\* The page is left or reloaded; the next visit may find localStorage
\* writable or not.
ClosePage ==
  /\ pageStage # "closed"
  /\ pageStage' = "closed"
  /\ dataTheme' = Null
  /\ switchTheme' = Light
  /\ storageWritable' \in BOOLEAN
  /\ UNCHANGED <<themeCookie, themeStorage, lastSelected>>
  /\ OutsideTheme

NextTheme ==
  \/ LoadPage
  \/ MountThemeSwitch
  \/ SelectTheme
  \/ PageChangeTheme
  \/ ClosePage

ThemeIdle ==
  /\ themeCookie = Null /\ themeStorage = Null /\ storageWritable = TRUE
  /\ pageStage = "closed" /\ dataTheme = Null /\ switchTheme = Light
  /\ lastSelected = Null


(***************************************************************************)
(* Inputs longer than the guards allow                                     *)
(***************************************************************************)
Repeat(c, n) == [i \in 1..n |-> c]

\* A q of the address longer than MAX_SEARCH_LEN, with a whitespace run
\* across the cut, and a blank one.
LongQuery == Repeat("x", MAX_SEARCH_LEN - 1) \o <<" ", " ", "y", "z">>
GuardUrls ==
  { [q |-> LongQuery, limit |-> Undefined, offset |-> Undefined, doc |-> Num(1)],
    [q |-> <<" ", " ">>, limit |-> Undefined, offset |-> Undefined, doc |-> Num(1)] }

\* A question longer than MAX_CHAT_LEN, as a browser that does not enforce
\* the textarea's maxLength hands it to onChange.
LongQuestion == Repeat("q", MAX_CHAT_LEN - 1) \o <<" ", LF, "r", "s">>

TypeQuestion == SetQuestionOf({<<" ">>, LongQuestion})

NextGuard ==
  \/ Mount
  \/ TimerFire
  \/ SubmitSearch
  \/ ChangeLimit
  \/ SearchResponse
  \/ SearchAbortedReturn
  \/ TypeQuestion
  \/ AskStreaming
  \/ StreamResponse
  \/ SyncResponse
  \/ AbortedReturn

(***************************************************************************)
(* The page of page-bobile_issue.tsx: its search has neither page size nor  *)
(* offset, and tells when it cut the query.  It keeps its state under the  *)
(* names of the other page; limit, offset and the page numbers stay put.   *)
(***************************************************************************)
LimitNotice == <<"Search limited to 160 characters.">>

MobileUrls ==
  { [q |-> LongQuery, limit |-> Undefined, offset |-> Undefined, doc |-> Undefined],
    [q |-> <<"a">>, limit |-> Undefined, offset |-> Undefined, doc |-> Undefined] }

\* what /search answers, as normalizeSearchResults reads it
MobileHits == { <<1, 2>>, <<2>> }

\* The state after consecutive setState calls with these values.
LastSet(values) == values[Len(values)]

\* The debounce effect of this page for a render with query q.
MobileDebounceEffect(q) ==
  LET cleared == ClearTimeout(timers, debounceHandle)
  IN IF Trim(q) = <<>>
     THEN /\ results' = <<>>
          /\ expandedMeta' = NoMeta
          /\ expandedSet' = {}
          /\ timers' = cleared
          /\ debounceHandle' = NoTimer
     ELSE /\ timers' = cleared (+) SetToBag({Timer(q, limit)})
          /\ debounceHandle' = Timer(q, limit)
          /\ UNCHANGED <<results, expandedMeta, expandedSet>>

\* doSearch(qStr) of this page up to its await fetch.  The two setErrorMsg
\* calls run in the same synchronous stretch: the second one's value is the
\* one the state holds afterwards.
MobileDoSearch(raw) ==
  LET q == sanitizeText(raw, MAX_SEARCH_LEN)
      noticed == IF Len(raw) > MAX_SEARCH_LEN THEN LimitNotice ELSE errorMsg
  IN IF q = <<>>
     THEN UNCHANGED <<url, searchAbortRef, searchReqs, isSearching, errorMsg, searchSeq>>
     ELSE /\ searchSeq < MaxSearches
          /\ url' = [url EXCEPT !.q = q, !.doc = Undefined]
          /\ searchReqs' = AbortSearch(searchReqs, searchAbortRef)
                             \cup {SearchReq(searchSeq + 1, q, 0, 12)}
          /\ searchAbortRef' = searchSeq + 1
          /\ isSearching' = TRUE
          /\ errorMsg' = LastSet(<<noticed, Null>>)
          /\ searchSeq' = searchSeq + 1

MobileStays == UNCHANGED <<limit, offset, nextOffset, prevOffset, totalCount, page,
                           totalPages, pageInput, metaAbortRef, previewReqs, previewSeq>>

\* The first render: the debounce effect starts the timer for the address's q.
MobileMount ==
  /\ ~mounted
  /\ mounted' = TRUE
  /\ MobileDebounceEffect(query)
  /\ searchOp' = SearchOp("mount", 0)
  /\ UNCHANGED <<url, query, isSearching, errorMsg, searchAbortRef, searchReqs, searchSeq>>
  /\ MobileStays
  /\ OutsideSearch

\* The search box's onChange.
MobileSetQuery ==
  /\ mounted /\ SearchQuiescent
  /\ \E q \in SearchQueries :
       /\ q # query
       /\ query' = q
       /\ MobileDebounceEffect(q)
  /\ searchOp' = SearchOp("type", 0)
  /\ UNCHANGED <<mounted, url, isSearching, errorMsg, searchAbortRef, searchReqs, searchSeq>>
  /\ MobileStays
  /\ OutsideSearch

\* A debounce timer runs out: doSearch(query) with the query of its render.
MobileTimerFire ==
  /\ mounted /\ SearchQuiescent
  /\ \E t \in BagToSet(timers) :
       /\ timers' = timers (-) SetToBag({t})
       /\ MobileDoSearch(t.q)
  /\ searchOp' = SearchOp("timer", searchSeq')
  /\ UNCHANGED <<mounted, query, results, expandedMeta, expandedSet, debounceHandle>>
  /\ MobileStays
  /\ OutsideSearch

\* The form's submit: doSearch().
MobileSubmit ==
  /\ mounted /\ SearchQuiescent
  /\ Trim(query) # <<>> /\ ~isSearching
  /\ MobileDoSearch(query)
  /\ searchOp' = SearchOp("submit", searchSeq')
  /\ UNCHANGED <<mounted, query, results, expandedMeta, expandedSet, timers, debounceHandle>>
  /\ MobileStays
  /\ OutsideSearch

\* An OK response with a JSON body reaches this page's doSearch.
MobileSearchResponse ==
  /\ SearchQuiescent
  /\ \E r \in searchReqs : \E hits \in MobileHits :
       /\ results' = hits
       /\ expandedMeta' = NoMeta
       /\ expandedSet' = {}
       /\ SearchFinally(r)
       /\ searchOp' = SearchOp("searchOk", r.id)
  /\ UNCHANGED <<mounted, url, query, errorMsg, timers, debounceHandle, searchSeq>>
  /\ MobileStays
  /\ OutsideSearch

\* This page's catch and finally are those of the other page.
NextMobile ==
  \/ MobileMount
  \/ MobileSetQuery
  \/ MobileTimerFire
  \/ MobileSubmit
  \/ MobileSearchResponse
  \/ SearchFailure
  \/ SearchAbortedReturn

(***************************************************************************)
(* PageBody: the paging buttons                                            *)
(***************************************************************************)
MaxOffset == 6      \* the largest offset a click on Next asks for

\* The addresses of the second and of the first page of two results each.
PageUrls ==
  { [q |-> <<"a">>, limit |-> Num(2), offset |-> Num(2), doc |-> Undefined],
    [q |-> <<"a">>, limit |-> Num(2), offset |-> Undefined, doc |-> Undefined] }

\* What the server may answer to a request for a page: a full page with the
\* neighbours' offsets, a last page shorter than limit without them, a full
\* page without next_offset and with a negative prev_offset.
PagePayloads(r) ==
  { Payload("object", <<>>, TRUE, <<1, 2>>, Num(r.lim), Num(r.off), Num(r.off + r.lim),
            IF r.off > 0 THEN Num(Max(0, r.off - r.lim)) ELSE JNull, Num(5),
            Undefined, Undefined),
    Payload("object", <<>>, TRUE, <<2>>, Num(r.lim), Num(r.off), JNull, JNull, Num(5),
            Undefined, Undefined),
    Payload("object", <<>>, TRUE, <<1, 2>>, Num(r.lim), Num(r.off), Undefined, Num(-1),
            Undefined, Undefined, Undefined) }

PageResponse == SearchResponseWith(PagePayloads)

\* a number >= 0, as `x !== null && x >= 0` tests it
NonNegative(x) == x.t = "number" /\ x.v >= 0

canPrev == NonNegative(prevOffset) \/ offset > 0

canNext ==
  IF nextOffset # JNull THEN TRUE
  ELSE IF totalCount # JNull THEN offset + Len(results) < totalCount.v
  ELSE Len(results) >= Max(1, limit)

computePrevOffset ==
  IF NonNegative(prevOffset) THEN prevOffset.v ELSE Max(0, offset - Max(1, limit))

computeNextOffset ==
  IF nextOffset # JNull THEN nextOffset
  ELSE IF Len(results) < Max(1, limit) THEN JNull
  ELSE Num(offset + Max(1, limit))

\* What a paging click leaves alone; the buttons are rendered with the results.
PagingStays ==
  /\ UNCHANGED <<mounted, query, limit, results, expandedMeta, expandedSet, nextOffset,
                 prevOffset, totalCount, page, totalPages, pageInput, timers,
                 debounceHandle, metaAbortRef, previewReqs, previewSeq>>
  /\ OutsideSearch

\* '<< First'
ClickFirst ==
  /\ mounted /\ SearchQuiescent /\ results # <<>>
  /\ ~(isSearching \/ ~canPrev \/ offset = 0)
  /\ offset' = 0
  /\ DoSearch(query, 0, limit)
  /\ searchOp' = SearchOp("first", IF searchSeq' # searchSeq THEN searchSeq' ELSE 0)
  /\ PagingStays

\* '<- Prev'
ClickPrev ==
  /\ mounted /\ SearchQuiescent /\ results # <<>>
  /\ ~(isSearching \/ ~canPrev)
  /\ LET newOff == computePrevOffset
     IN /\ offset' = newOff
        /\ DoSearch(query, newOff, limit)
  /\ searchOp' = SearchOp("prev", IF searchSeq' # searchSeq THEN searchSeq' ELSE 0)
  /\ PagingStays

\* 'Next ->'
ClickNext ==
  /\ mounted /\ SearchQuiescent /\ results # <<>>
  /\ ~(isSearching \/ ~canNext)
  /\ LET newOff == IF nextOffset # JNull THEN nextOffset ELSE computeNextOffset
     IN IF newOff = JNull
        THEN UNCHANGED <<offset, url, searchAbortRef, searchReqs, isSearching, errorMsg,
                         searchSeq>>
        ELSE /\ newOff.v <= MaxOffset
             /\ offset' = newOff.v
             /\ DoSearch(query, newOff.v, limit)
  /\ searchOp' = SearchOp("next", IF searchSeq' # searchSeq THEN searchSeq' ELSE 0)
  /\ PagingStays

\* displayPage
displayPage == IF page # 0 THEN page ELSE FloorDiv(offset, Max(1, limit)) + 1

computeLastOffset ==
  IF totalPages # JNull /\ totalPages.v > 0
  THEN Num((totalPages.v - 1) * Max(1, limit))
  ELSE IF totalCount # JNull
       THEN Num(Max(0, FloorDiv(totalCount.v - 1, Max(1, limit)) * Max(1, limit)))
       ELSE JNull

\* 'Last >>'
ClickLast ==
  /\ mounted /\ SearchQuiescent /\ results # <<>>
  /\ ~(isSearching \/ computeLastOffset = JNull
         \/ (totalPages # JNull /\ displayPage >= totalPages.v))
  /\ LET lastOff == computeLastOffset
     IN /\ offset' = lastOff.v
        /\ DoSearch(query, lastOff.v, limit)
  /\ searchOp' = SearchOp("last", IF searchSeq' # searchSeq THEN searchSeq' ELSE 0)
  /\ PagingStays

\* The paging state after a change of the page size.
NextLast ==
  \/ Mount
  \/ SetQuery
  \/ TimerFire
  \/ ChangeLimit
  \/ PageResponse
  \/ SearchFailure
  \/ SearchAbortedReturn
  \/ ClickLast

NextPaging ==
  \/ Mount
  \/ SetQuery
  \/ TimerFire
  \/ PageResponse
  \/ SearchAbortedReturn
  \/ ClickFirst
  \/ ClickPrev
  \/ ClickNext

(***************************************************************************)
(* PageBody: a page opened with a search in its address, left alone        *)
(***************************************************************************)
\* Addresses with a q that is not blank, with and without limit and offset,
\* within and outside their ranges.
LoadUrls ==
  { [q |-> q, limit |-> lim, offset |-> off, doc |-> Undefined] :
      q \in { <<"a">>, <<"b", " ">> },
      lim \in { Undefined, Num(10), Num(99) },
      off \in { Undefined, Num(10), Num(-5) } }

\* What happens without the user: the mount effects, the timer, the answers.
NextLoad ==
  \/ Mount
  \/ TimerFire
  \/ SearchResponse
  \/ SearchFailure
  \/ SearchAbortedReturn

(***************************************************************************)
(* The specifications                                                      *)
(***************************************************************************)
StreamIdle ==
  /\ body = <<>> /\ pos = 0 /\ buffer = <<>> /\ accumulatedAnswer = <<>>
  /\ isDone = FALSE /\ parsedLines = <<>> /\ readerState = "idle"

ChatIdle ==
  /\ selectedDoc = 0 /\ question = <<>> /\ lastQuestion = Null /\ k = 6
  /\ isLoading = FALSE /\ isStreaming = FALSE /\ answer = Null /\ chunks = <<>>
  /\ streamingAnswer = <<>> /\ qaLog = <<>> /\ askAbortRef = 0 /\ chatReqs = {}
  /\ alerts = 0 /\ chatSeq = 0 /\ chatOp = ChatOp("init", 0)

NormIdle == data = OtherPayload /\ norm = NoNorm /\ normCalled = FALSE

NoOrphans == orphanReqs = {}

RestIdle == NoOrphans /\ PdfIdle /\ ThemeIdle

InitStreamSpec == InitStream /\ ChatIdle /\ SearchIdle /\ NormIdle /\ RestIdle
SpecStream == InitStreamSpec /\ [][NextStream]_vars

InitChatSpec == InitChat /\ StreamIdle /\ PageShowingHits /\ NormIdle /\ RestIdle
SpecChat == InitChatSpec /\ [][NextChat]_vars

SpecPanel == InitChatSpec /\ [][NextPanel]_vars

InitSearchSpec == InitSearch /\ StreamIdle /\ ChatIdle /\ NormIdle /\ RestIdle
SpecSearch == InitSearchSpec /\ [][NextSearch]_vars

SpecDoc == InitSearchSpec /\ [][NextDoc]_vars

InitGuardSpec == InitSearchAt(GuardUrls) /\ StreamIdle /\ ChatIdle /\ NormIdle /\ RestIdle
SpecGuard == InitGuardSpec /\ [][NextGuard]_vars

InitMobileSpec == InitSearchAt(MobileUrls) /\ StreamIdle /\ ChatIdle /\ NormIdle /\ RestIdle
SpecMobile == InitMobileSpec /\ [][NextMobile]_vars

InitPagingSpec == InitSearchAt(PageUrls) /\ StreamIdle /\ ChatIdle /\ NormIdle /\ RestIdle
SpecPaging == InitPagingSpec /\ [][NextPaging]_vars

SpecLast == InitPagingSpec /\ [][NextLast]_vars

InitLoadSpec == InitSearchAt(LoadUrls) /\ StreamIdle /\ ChatIdle /\ NormIdle /\ RestIdle
SpecLoad == InitLoadSpec /\ [][NextLoad]_vars

InitPdfSpec ==
  InitPdf /\ StreamIdle /\ ChatIdle /\ SearchIdle /\ NormIdle /\ NoOrphans /\ ThemeIdle
SpecPdf == InitPdfSpec /\ [][NextPdf]_vars

InitThemeSpec ==
  InitTheme /\ StreamIdle /\ ChatIdle /\ SearchIdle /\ NormIdle /\ NoOrphans /\ PdfIdle
SpecTheme == InitThemeSpec /\ [][NextTheme]_vars

InitNormSpec == InitNorm /\ StreamIdle /\ ChatIdle /\ SearchIdle /\ RestIdle
SpecNorm == InitNormSpec /\ [][NextNorm]_vars

(***************************************************************************)
(* Claims about the read loop (under SpecStream)                           *)
(***************************************************************************)
IsPrefix(a, b) == Len(a) <= Len(b) /\ SubSeq(b, 1, Len(a)) = a

IsNonBlank(line) == Trim(line) # <<>>

\* The string delta fields of the lines, in order, up to and including the
\* first line with done === true.
RECURSIVE DeltasUpToDone(_)
DeltasUpToDone(lines) ==
  IF lines = <<>> THEN <<>>
  ELSE LET json == ParseLine(Head(lines))
       IN IF json.ok /\ json.done THEN json.delta
          ELSE json.delta \o DeltasUpToDone(Tail(lines))

\* C5: Stream parsing is independent of chunk boundaries.  However the body
\* is cut into chunks, the lines parsed are newline-terminated lines of what
\* has arrived, each once and in order, the unterminated tail waits in the
\* buffer, and the text accumulated when the loop ends is the concatenation
\* of the string delta fields of the body's newline-terminated lines up to
\* and including the first line with done === true.
C5_ChunkIndependentText ==
  LET arrived == SubSeq(body, 1, pos)
      pieces == Split(arrived, LF)
  IN /\ IsPrefix(parsedLines, SelectSeq(CompleteLines(<<>>, arrived), IsNonBlank))
     /\ readerState = "reading" => buffer = pieces[Len(pieces)]
     /\ readerState = "finished" =>
          accumulatedAnswer = DeltasUpToDone(CompleteLines(<<>>, body))

(***************************************************************************)
(* Claims about ChatPanel (under SpecChat)                                 *)
(***************************************************************************)
Shown(x) == IF x = Null THEN <<>> ELSE x

\* C2: Chat cancellation.  A step that submits a question or presses Reset
\* leaves every request that was in flight aborted; and the step in which an
\* aborted request returns changes neither answer nor qaLog, sends nothing
\* (no sync fallback) and raises no alert.
C2_ChatCancellation ==
  [][ /\ chatOp'.name \in {"ask", "reset"} =>
           \A r \in chatReqs : \E r2 \in chatReqs' : r2.id = r.id /\ r2.aborted
      /\ (\E r \in chatReqs : r.aborted) =>
           /\ answer' = answer
           /\ qaLog' = qaLog
           /\ alerts' = alerts
           /\ chatSeq' = chatSeq
           /\ chatReqs' \subseteq chatReqs ]_vars

\* An aborted request has returned while the question that replaced it is in
\* flight, and it left no answer, no log entry and no alert.
C2_Witness ==
  /\ chatOp.name = "aborted"
  /\ \E r \in chatReqs : r.id > chatOp.id /\ ~r.aborted
  /\ answer = Null /\ qaLog = <<>> /\ alerts = 0

\* C3: Streaming fallback.  When /chat/stream fails other than by abort, one
\* request goes to /chat, with the stream request's question, doc_id and k,
\* and the stream request is over; the answer on display and the new qaLog
\* entry are the sync reply's; a failing sync request raises one alert and
\* adds no entry.
C3_StreamingFallback ==
  [][ /\ chatOp'.name = "streamFail" =>
           \E r \in chatReqs :
             /\ r.id = chatOp'.id /\ r.kind = "stream"
             /\ chatSeq' = chatSeq + 1
             /\ \A x \in chatReqs' : x.id # r.id
             /\ \E s \in chatReqs' :
                  /\ s.id = chatSeq' /\ s.kind = "sync" /\ ~s.aborted
                  /\ s.q = r.q /\ s.doc = r.doc /\ s.k = r.k
      /\ chatOp'.name = "syncOk" =>
           /\ answer' = cleanLLMAnswer(chatOp'.text)
           /\ displayAnswer' = answer'
           /\ qaLog' = Append(qaLog, [q |-> chatOp'.q, a |-> answer',
                                      chunks |-> chatOp'.chunks, doc |-> selectedDoc])
           /\ alerts' = alerts
      /\ chatOp'.name = "syncFail" =>
           /\ alerts' = alerts + 1
           /\ qaLog' = qaLog ]_vars

\* A stream failed, the k slider was moved, and the sync reply (its label line
\* stripped) is on display and in the log with its chunks.
C3_Witness ==
  /\ chatOp.name = "syncOk"
  /\ answer = <<"s">>
  /\ Len(qaLog) = 1 /\ qaLog[1].a = <<"s">> /\ qaLog[1].chunks = <<"c">>
  /\ k = 7

\* C4: Stream error event.  Once a complete line with a truthy error field has
\* arrived, the streaming attempt is over (failed, retried through /chat): no
\* streaming request that saw one is still reading, and none is finalised
\* into answer and qaLog.
C4_ErrorEventFailsStream ==
  \A r \in chatReqs : r.kind = "stream" => ~r.errorSeen

\* C6: Real-time display.  While the streaming request of the submitted
\* question is in flight, the answer on display is the text accumulated from
\* its deltas so far.
C6_RealTimeDisplay ==
  \A r \in chatReqs :
    (r.kind = "stream" /\ ~r.aborted) => Shown(displayAnswer) = r.acc

\* C7: Stream completion.  A streaming request is finalised when its first
\* done line arrives (none that has seen a done line is still reading), and
\* the finalising step sets answer to cleanLLMAnswer of the accumulated text,
\* clears streamingAnswer and leaves {q, a, chunks: []} last in qaLog.
C7_StreamCompletion ==
  /\ \A r \in chatReqs : r.kind = "stream" => ~r.doneSeen
  /\ chatOp.name = "finalise" =>
       /\ answer = cleanLLMAnswer(chatOp.text)
       /\ streamingAnswer = <<>>
       /\ qaLog # <<>>
       /\ qaLog[Len(qaLog)] = [q |-> chatOp.q, a |-> answer, chunks |-> <<>>,
                            doc |-> selectedDoc]

(***************************************************************************)
(* Claims about PageBody (under SpecSearch)                                *)
(***************************************************************************)
LiveSearches(reqs) == { r \in reqs : ~r.aborted }

\* C1  Search cancellation.  A doSearch that sends a request leaves every
\* earlier request aborted, so at most one search request is un-aborted; the
\* return of an aborted request changes none of results, limit, offset,
\* nextOffset, prevOffset, totalCount, page, totalPages and errorMsg; and a
\* response is applied, and results change through a search, only for the
\* request that is the most recently issued one at that moment.
C1_SearchCancellation ==
  [][ /\ Cardinality(LiveSearches(searchReqs')) <= 1
      /\ searchSeq' # searchSeq =>
           /\ SearchReq(searchSeq', url'.q, url'.offset.v, url'.limit.v) \in searchReqs'
           /\ \A r \in searchReqs' : r.id # searchSeq' => r.aborted
      /\ \A r \in searchReqs : (r.aborted /\ r \notin searchReqs') =>
           UNCHANGED <<results, limit, offset, nextOffset, prevOffset, totalCount,
                       page, totalPages, errorMsg>>
      /\ searchOp'.name = "searchOk" =>
           /\ searchOp'.id = searchSeq
           /\ \E r \in LiveSearches(searchReqs) : r.id = searchSeq /\ r \notin searchReqs'
      /\ results' # results =>
           \/ searchOp'.name = "searchOk"
           \/ Trim(query') = <<>>
    ]_vars

\* The first search was aborted by a second one and has returned; the second is
\* in flight, and nothing of the first reached the page.
C1_Witness ==
  /\ searchOp = SearchOp("searchAborted", 1)
  /\ \E r \in searchReqs : r.id = 2 /\ ~r.aborted
  /\ results = <<>>
  /\ errorMsg = Null

\* C8  Debounced search.  A change of the query to a non-blank value leaves
\* exactly one timer pending, for the new value and the limit of that moment,
\* and typing sends nothing itself; a pending timer is always for the query in
\* the box, so a change of the query cancels the timer of the replaced value
\* and at most one timer is pending; a timer that runs out sends one search
\* for its query value, sanitized, at offset 0 with its limit.
C8_DebouncedSearch ==
  [][ /\ BagCardinality(timers') <= 1
      /\ \A t \in BagToSet(timers') : t.q = query'
      /\ (mounted /\ query' # query) =>
           \A t \in BagToSet(timers) : t \notin BagToSet(timers')
      /\ (mounted /\ query' # query /\ Trim(query') # <<>>) =>
           timers' = SetToBag({Timer(query', limit')})
      /\ searchOp'.name = "type" => searchSeq' = searchSeq
      /\ searchOp'.name = "timer" =>
           \E t \in BagToSet(timers) :
             /\ t.q = query
             /\ timers' = EmptyBag
             /\ searchSeq' = searchSeq + 1
             /\ SearchReq(searchSeq', sanitizeText(t.q, MAX_SEARCH_LEN), 0, t.lim)
                  \in searchReqs'
             /\ offset' = 0
    ]_vars

\* The page opened on "a"; "b " was typed before the timer of "a" ran out; the
\* timer of "b " has run out and its search, for "b" at offset 0, has replaced
\* the search for the address's q.
C8_Witness ==
  /\ searchOp = SearchOp("timer", 2)
  /\ query = <<"b", " ">>
  /\ timers = EmptyBag
  /\ SearchReq(2, <<"b">>, 0, limit) \in searchReqs
  /\ \E r \in searchReqs : r.id = 1 /\ r.q = <<"a">> /\ r.aborted

\* C10  Lazy doc preview.  A preview request is sent only by a step that opens
\* a result, for the document opened, and only when expandedMeta holds no
\* outcome for it; an outcome stored in expandedMeta goes away only when a
\* search delivers results or the query becomes blank.
C10_LazyDocPreview ==
  [][ /\ previewSeq' # previewSeq =>
           /\ previewSeq' = previewSeq + 1
           /\ \E p \in previewReqs' : p.id = previewSeq' /\ ~p.aborted
      /\ \A p \in previewReqs' : p.id > previewSeq =>
           /\ searchOp'.name = "expand"
           /\ searchOp'.id = p.doc
           /\ p.doc \notin expandedSet
           /\ p.doc \in expandedSet'
           /\ expandedMeta[p.doc] = "undefined"
      /\ (\E d \in DocIds : expandedMeta[d] # "undefined" /\ expandedMeta'[d] = "undefined") =>
           \/ searchOp'.name = "searchOk"
           \/ Trim(query') = <<>> /\ query' # query
    ]_vars

\* A result whose preview had failed was collapsed and opened again, and no
\* second request went out.
C10_Witness ==
  /\ searchOp.name = "expand"
  /\ expandedMeta[searchOp.id] = "null"
  /\ searchOp.id \in expandedSet
  /\ previewSeq = 1
  /\ previewReqs = {}

(***************************************************************************)
(* Claims about normalizeSearchPayload (under SpecNorm)                    *)
(***************************************************************************)
\* C9  Pagination reconciliation.  For an object payload, page is the
\* server's page when that is a number > 0 and floor(offset/limit)+1 otherwise;
\* totalPages is the server's total_pages when that is a number > 0, otherwise
\* max(1, ceil(total_count/limit)) when total_count is a number, otherwise
\* null; limit >= 1 and offset >= 0.  An array payload gives hits = the array,
\* any other payload no hits, both with limit 10, offset 0, page 1 and the
\* other fields null.
C9_PaginationReconciliation ==
  normCalled =>
    /\ data.kind = "object" =>
         /\ norm.page = (IF data.page.t = "number" /\ data.page.v > 0
                         THEN data.page.v
                         ELSE (norm.offset \div norm.limit) + 1)
         /\ norm.totalPages =
              (IF data.total_pages.t = "number" /\ data.total_pages.v > 0
               THEN data.total_pages
               ELSE IF data.total_count.t = "number"
                    THEN Num(Max(1, CeilDiv(data.total_count.v, norm.limit)))
                    ELSE JNull)
         /\ norm.limit >= 1
         /\ norm.offset >= 0
    /\ data.kind = "array" => norm = DefaultNorm(data.items)
    /\ data.kind = "other" => norm = DefaultNorm(<<>>)

(***************************************************************************)
(* Claims about the ChatPanel of the selected document (under SpecPanel)   *)
(***************************************************************************)
\* C11  QA log scope.  Every entry of the log on display was produced by a
\* question sent for the selected document; a step that changes the selected
\* document (choosing another one, clearing, choosing again) leaves an empty
\* log; and the end of a request that belongs to an earlier ChatPanel changes
\* neither the log nor the answer on display.
C11_QaLogScope ==
  [][ /\ \A i \in DOMAIN qaLog' : qaLog'[i].doc = selectedDoc'
      /\ selectedDoc' = 0 => qaLog' = <<>>
      /\ selectedDoc' # selectedDoc => qaLog' = <<>>
      /\ (orphanReqs' # orphanReqs /\ orphanReqs' \subseteq orphanReqs) =>
           /\ qaLog' = qaLog
           /\ answer' = answer
    ]_vars

\* A question was asked about document 1, document 2 was chosen and asked
\* about, its answer is in the log, and the request about document 1 has now
\* come to its end.
C11_Witness ==
  /\ chatOp = ChatOp("orphan", 1)
  /\ selectedDoc = 2
  /\ Len(qaLog) = 1
  /\ qaLog[1].doc = 2

(***************************************************************************)
(* More claims about PageBody (under SpecSearch)                           *)
(***************************************************************************)
\* C12  Search failure handling.  A search that fails other than by abort
\* shows the failure text and changes none of results, expandedSet and
\* expandedMeta, which the sending of the request did not change either; the
\* return of an aborted search leaves errorMsg as it is; and a step that sends
\* a search leaves errorMsg null.
C12_SearchFailure ==
  [][ /\ searchOp'.name = "searchFail" =>
           /\ errorMsg' = ErrText
           /\ UNCHANGED <<results, expandedSet, expandedMeta>>
      /\ searchSeq' # searchSeq =>
           /\ errorMsg' = Null
           /\ UNCHANGED <<results, expandedSet, expandedMeta>>
      /\ \A r \in searchReqs : (r.aborted /\ r \notin searchReqs') => errorMsg' = errorMsg
    ]_vars

\* A second search failed while the hits of the first, one of them expanded
\* with its preview, stay on display under the error message.
C12_Witness ==
  /\ searchOp = SearchOp("searchFail", 2)
  /\ errorMsg = ErrText
  /\ results = <<1, 2>>
  /\ expandedSet = {1}
  /\ expandedMeta[1] = "meta"

(***************************************************************************)
(* Claims about the PDF drawer (under SpecPdf)                             *)
(***************************************************************************)
\* C13  PDF viewer platform mapping.  An open drawer renders exactly one of
\* embed, iframe and the fallback link: the embed on iOS (an iPhone/iPad/iPod
\* user agent, or a Macintosh one with touch support); otherwise the iframe on
\* Android that is neither Firefox nor a WebView, and the fallback link on
\* Android Firefox and Android WebViews.
C13_PdfPlatformMapping ==
  LET ua == userAgent
      iOS == ua.iDevice \/ (ua.macintosh /\ ua.touch)
      webView == ua.wv \/ (~ua.chrome /\ ua.version)
  IN /\ pdfPanel = 0 => pdfView = "none"
     /\ pdfPanel # 0 =>
          /\ pdfView \in {"embed", "iframe", "fallback"}
          /\ iOS => pdfView = "embed"
          /\ (~iOS /\ ua.android /\ ~ua.firefox /\ ~webView) => pdfView = "iframe"
          /\ (~iOS /\ ua.android /\ (ua.firefox \/ webView)) => pdfView = "fallback"

\* The drawer is open on an iPad that presents itself as a Macintosh.
C13_Witness ==
  /\ pdfPanel # 0
  /\ userAgent.macintosh /\ userAgent.touch /\ ~userAgent.iDevice /\ ~userAgent.android
  /\ pdfView = "embed"

\* C15  Desktop PDF rendering.  On a user agent that is neither iOS nor
\* Android the open drawer shows the document in an iframe.
C15_DesktopPdfInline ==
  LET ua == userAgent
      iOS == ua.iDevice \/ (ua.macintosh /\ ua.touch)
  IN (pdfPanel # 0 /\ ~iOS /\ ~ua.android) => pdfView = "iframe"

(***************************************************************************)
(* Claims about the theme (under SpecTheme)                                *)
(***************************************************************************)
\* C14  Theme persistence round trip.  The theme applied when the page loads
\* is the theme cookie's value when there is a cookie, otherwise localStorage's
\* 'theme', otherwise 'light'; a selection in ThemeSwitch puts the selected
\* theme into data-theme, into the cookie and, when the write succeeds, into
\* localStorage; and once a theme was selected, every load applies the theme
\* selected last.
C14_ThemeRoundTrip ==
  [][ /\ (pageStage = "closed" /\ pageStage' = "scripted") =>
           /\ dataTheme' = (IF themeCookie # Null THEN decodeURIComponent(themeCookie)
                            ELSE IF themeStorage # Null THEN themeStorage
                            ELSE Light)
           /\ lastSelected # Null => dataTheme' = lastSelected
      /\ lastSelected' # lastSelected =>
           /\ dataTheme' = lastSelected'
           /\ themeCookie' # Null
           /\ decodeURIComponent(themeCookie') = lastSelected'
           /\ storageWritable => themeStorage' = lastSelected'
    ]_vars

\* Sepia was selected while localStorage held another theme and could not be
\* written; the page was loaded again and sepia is applied.
C14_Witness ==
  /\ pageStage = "scripted"
  /\ lastSelected = Sepia
  /\ dataTheme = Sepia
  /\ themeStorage = DeepDark

(***************************************************************************)
(* Claims about the selected document and the URL (under SpecDoc)          *)
(***************************************************************************)
\* C16  The URL has a doc parameter exactly when a document is selected (the
\* chat panel is shown), and its value is the selected document's id, in
\* every state reached by select-document, clear-selection and search
\* operations.
C16_UrlDocIffSelected ==
  /\ (url.doc # Undefined) <=> (selectedDoc # 0)
  /\ selectedDoc # 0 => url.doc = Num(selectedDoc)

(***************************************************************************)
(* Claims about the input guards (under SpecGuard)                         *)
(***************************************************************************)
\* C17  Input guards on requests.  Every q sent to /search and every question
\* sent to /chat/stream or /chat is the sanitizeText of the input: not empty,
\* at most 160 (search) or 800 (chat) characters, every whitespace run
\* collapsed to one blank, no whitespace at either end.  When the input is
\* blank after sanitising, no request is sent, the URL is not rewritten and
\* doSearch and askStreaming change no state.
C17_InputGuards ==
  [][ LET Guarded(q, max) ==
            /\ q # <<>>
            /\ Len(q) <= max
            /\ ~IsSpace(q[1]) /\ ~IsSpace(q[Len(q)])
            /\ \A i \in DOMAIN q : IsSpace(q[i]) => (q[i] = " " /\ ~IsSpace(q[i - 1]))
      IN /\ \A r \in searchReqs' \ searchReqs :
              (searchSeq' # searchSeq /\ r.id = searchSeq') =>
                /\ Guarded(r.q, MAX_SEARCH_LEN)
                /\ r.q = url'.q
                /\ searchOp'.name = "mount" => r.q = sanitizeText(url.q, MAX_SEARCH_LEN)
                /\ searchOp'.name \in {"submit", "pageSize"} =>
                     r.q = sanitizeText(query, MAX_SEARCH_LEN)
         /\ \A r \in chatReqs' \ chatReqs :
              (chatSeq' # chatSeq /\ r.id = chatSeq') =>
                /\ Guarded(r.q, MAX_CHAT_LEN)
                /\ r.kind = "stream" => r.q = sanitizeText(question, MAX_CHAT_LEN)
                /\ r.kind = "sync" =>
                     \E s \in chatReqs : s.id = r.origin /\ r.q = sanitizeText(s.q, MAX_CHAT_LEN)
         /\ ( /\ searchOp' # searchOp
              /\ searchOp'.name \in {"mount", "submit", "pageSize"}
              /\ sanitizeText(IF searchOp'.name = "mount" THEN url.q ELSE query,
                              MAX_SEARCH_LEN) = <<>> ) =>
              UNCHANGED <<url, searchReqs, searchSeq, isSearching, errorMsg, searchAbortRef,
                          results, offset, nextOffset, prevOffset, totalCount, query>>
         /\ sanitizeText(question, MAX_CHAT_LEN) = <<>> =>
              UNCHANGED <<lastQuestion, chatSeq>> \/ chatOp'.name = "streamFail"
    ]_vars

\* The q of the address was cut at 160 characters and is in flight, and the
\* long question was cut at 800 characters and sent to /chat.
C17_Witness ==
  /\ \E r \in searchReqs : r.q = Repeat("x", MAX_SEARCH_LEN - 1) /\ ~r.aborted
  /\ \E r \in chatReqs : r.kind = "sync" /\ r.q = Repeat("q", MAX_CHAT_LEN - 1)

(***************************************************************************)
(* Claims about the search of page-bobile_issue.tsx (under SpecMobile)     *)
(***************************************************************************)
\* C18  Over-long search notice.  When doSearch was called with a raw query
\* longer than 160 characters, the search runs with the cut query and
\* errorMsg holds 'Search limited to 160 characters.' while that search is in
\* flight and after it succeeded.
C18_LongSearchNotice ==
  ( /\ Len(query) > MAX_SEARCH_LEN
    /\ url.q = sanitizeText(query, MAX_SEARCH_LEN)
    /\ \/ \E r \in searchReqs : ~r.aborted /\ r.q = url.q
       \/ searchOp.name = "searchOk" ) => errorMsg = LimitNotice

(***************************************************************************)
(* Claims about the paging buttons (under SpecPaging)                      *)
(***************************************************************************)
\* C19  Previous/first page offsets.  A click on Prev, enabled, issues a
\* search at the server's prev_offset when that is not null and >= 0 and
\* otherwise at max(0, offset - limit); the offset asked for is never
\* negative.  First issues a search at offset 0 and does nothing when offset
\* is 0.
C19_PrevFirstOffsets ==
  [][ LET Asked(off) ==
            /\ offset' = off
            /\ off >= 0
            /\ searchSeq' = searchSeq + 1
            /\ SearchReq(searchSeq', sanitizeText(query, MAX_SEARCH_LEN), off, limit)
                 \in searchReqs'
            /\ url'.offset = Num(off)
      IN /\ (searchOp' # searchOp /\ searchOp'.name = "prev") =>
              /\ ~isSearching
              /\ (prevOffset # JNull /\ prevOffset.v >= 0) => Asked(prevOffset.v)
              /\ ~(prevOffset # JNull /\ prevOffset.v >= 0) =>
                   Asked(IF offset - limit > 0 THEN offset - limit ELSE 0)
         /\ (searchOp' # searchOp /\ searchOp'.name = "first") =>
              /\ offset # 0
              /\ Asked(0)
    ]_vars

\* C20  Next page.  Whenever the Next button is enabled (no search in flight
\* and canNext() true), a click on it issues a search, at the server's
\* next_offset when that is not null and otherwise at offset + limit, and the
\* offset asked for is greater than the current one; for every answer of the
\* server, one with fewer hits than limit and a larger total_count included.
C20_NextPage ==
  [][ (searchOp' # searchOp /\ searchOp'.name = "next"
         /\ sanitizeText(query, MAX_SEARCH_LEN) # <<>>) =>
        LET off == IF nextOffset # JNull THEN nextOffset.v ELSE offset + limit
        IN /\ searchSeq' = searchSeq + 1
           /\ SearchReq(searchSeq', sanitizeText(query, MAX_SEARCH_LEN), off, limit)
                \in searchReqs'
           /\ off > offset
    ]_vars

(***************************************************************************)
(* Claims about the Last button (under SpecLast)                           *)
(***************************************************************************)
\* C21  Last page offset.  A click on Last asks for (totalPages - 1) * limit;
\* when totalPages was computed from a total_count >= 1 this is
\* floor((total_count - 1) / limit) * limit, the largest multiple of limit
\* below total_count.  Last does nothing when totalPages is unknown or the
\* displayed page is already >= totalPages.
C21_LastOffset ==
  [][ (searchOp' # searchOp /\ searchOp'.name = "last" /\ searchOp'.id # 0) =>
        /\ totalPages # JNull
        /\ displayPage < totalPages.v
        /\ offset' = (totalPages.v - 1) * limit
        /\ SearchReq(searchSeq', sanitizeText(query, MAX_SEARCH_LEN), offset', limit)
             \in searchReqs'
        /\ (totalCount # JNull /\ totalCount.v >= 1) =>
             /\ offset' = FloorDiv(totalCount.v - 1, limit) * limit
             /\ offset' < totalCount.v
             /\ offset' + limit >= totalCount.v
    ]_vars

(***************************************************************************)
(* Claims about the busy flags                                             *)
(***************************************************************************)
\* C22  Busy flag of the search (under SpecSearch).  isSearching is true in
\* every state in which a search request that was not aborted is in flight,
\* and false in every other state (once the continuation of an aborted fetch
\* has run).
C22_SearchBusy ==
  SearchQuiescent => (isSearching <=> (\E r \in searchReqs : ~r.aborted))

\* C23  Busy flags of the chat (under SpecChat).  isStreaming or isLoading is
\* true in every state in which a chat request (stream or sync fallback) that
\* was not aborted is in flight, and both are false when none is (once the
\* continuation of an aborted fetch has run).
C23_ChatBusy ==
  ChatQuiescent => ((isStreaming \/ isLoading) <=> (\E r \in chatReqs : ~r.aborted))

(***************************************************************************)
(* Claims about the blank query and the address (under SpecSearch)         *)
(***************************************************************************)
\* C24  Blank query means no results.  While the query is blank (the reset
\* effect has run with the render that made it blank), results, expandedSet
\* and expandedMeta are empty, offset is 0 and page is 1, whatever search was
\* in flight when the query was cleared.
C24_BlankQueryNoResults ==
  (mounted /\ Trim(query) = <<>>) =>
    /\ results = <<>>
    /\ expandedSet = {}
    /\ expandedMeta = NoMeta
    /\ offset = 0
    /\ page = 1

(***************************************************************************)
(* Claims about a page opened with a search in its address (under SpecLoad)*)
(***************************************************************************)
\* C25  Restoring a search from the URL.  A page opened with a q that is not
\* blank issues on mount a search for that q, with the offset and the limit of
\* the address brought into offset >= 0 and 1 <= limit <= 50 (12 and 0 when
\* absent); without an action of the user no other search is issued, so the
\* results shown once loading settles are those of that search.
C25_RestoreFromUrl ==
  [][ LET lim == IF url.limit = Undefined THEN 12
                 ELSE IF url.limit.v < 1 THEN 1
                 ELSE IF url.limit.v > 50 THEN 50 ELSE url.limit.v
          off == IF url.offset = Undefined \/ url.offset.v < 0 THEN 0 ELSE url.offset.v
      IN /\ (~mounted /\ mounted') =>
              /\ searchSeq' = 1
              /\ searchReqs' = {SearchReq(1, sanitizeText(url.q, MAX_SEARCH_LEN), off, lim)}
         /\ mounted =>
              /\ searchSeq' = searchSeq
              /\ \A r \in searchReqs' : ~r.aborted
              /\ searchOp'.name = "searchOk" => searchOp'.id = 1
    ]_vars

=============================================================================
